---------------------------- MODULE Spec2Model ----------------------------
(***************************************************************************)
(* Model of the workflow orchestrator of LangGraph-Lead-Generation:        *)
(* LangGraphWorkflowBuilder (src/langgraph_builder.py), the part of        *)
(* ConfigLoader it consults (src/utils/config_loader.py) and the result    *)
(* shapes of BaseAgent (src/agents/base_agent.py).                         *)
(*                                                                         *)
(* Python values are tagged records, one field name per kind, so that two  *)
(* values of different kinds are always comparable:                        *)
(*   None -> [t |-> "null"]         bool -> [t |-> "bool", b |-> ...]      *)
(*   int  -> [t |-> "int", n |-> .] str  -> [t |-> "str",  s |-> tokens]   *)
(*   dict -> [t |-> "dict", d |-> function from keys to values]            *)
(*   list -> [t |-> "list", l |-> sequence of values]                      *)
(* A Python string is a sequence of tokens.  A token is one of the         *)
(* characters the resolver looks at ("{", "}", ".", " "), a letter, or a   *)
(* word: a run of other characters taken as a unit.  Dictionary keys,      *)
(* stage ids and environment variable names are words; the values of       *)
(* environment variables are spelled letter by letter.                     *)
(***************************************************************************)
EXTENDS Integers, Sequences, FiniteSets, TLC

VARIABLES
    workflow_config,  \* self.workflow_config: the loaded workflow.json
    environ,          \* os.environ: variable name -> string
    env_vars,         \* ConfigLoader.env_vars (only ENABLE_DRY_RUN is read)
    agents,           \* self.agents: stage id -> constructed executor
    state,            \* self.state: stage id -> recorded result
    pc,               \* position of the caller: "idle", "loop", "save"
    idx,              \* execute_workflow: 1-based index of the next step
    calls,            \* history: execute() invocations of the current run,
                      \*   each with the state its inputs were resolved in
                      \*   and the values assigned to its entry, in order
    recorded,         \* history: the entry written to state by each step
    snapshots,        \* the files written by _save_results, oldest first
    build_outcome,    \* history: how the last build_workflow call ended
    run_built,        \* history: build_workflow had returned when the
                      \*   current execute_workflow call was entered
    entered,          \* history: self.state and the number of snapshots
                      \*   when the current execute_workflow call was entered
    run_outcome,      \* history: how the last execute_workflow call ended
    builds,           \* number of build_workflow calls so far
    runs,             \* number of execute_workflow calls so far
    clock             \* datetime.now()

VARIABLES
    earlier           \* history: how each earlier process (one builder from
                      \*   its construction to its exit) ended

VARIABLES
    outreach_pc,      \* OutreachExecutorAgent.execute: "off", "call", "bulk",
                      \*   "done"
    outreach_inputs,  \* execute: the inputs it is called with
    sendgrid_client,  \* SendGridClient.client: "none" or "api"
    emails_to_send,   \* execute: the list handed to send_bulk_emails
    dry_run,          \* send_bulk_emails: its dry_run argument
    results,          \* send_bulk_emails: results['sent'], results['failed']
    bulk_log,         \* history: for each email handled, the method that
                      \*   handled it and whether the network was used
    outreach_output   \* execute: the value returned

outreach_vars == <<outreach_pc, outreach_inputs, sendgrid_client,
                   emails_to_send, dry_run, results, bulk_log,
                   outreach_output>>

VARIABLES
    prepare_pc,       \* _prepare_agent_inputs called on its own: "off",
                      \*   "call", "done"
    resolved_inputs   \* _prepare_agent_inputs: the mapping it returns

resolver_vars == <<prepare_pc, resolved_inputs>>

VARIABLES
    events_file,      \* tracking_events.json: whether it can be parsed and
                      \*   the events it lists
    handlers          \* the requests to /webhook/sendgrid: for each one the
                      \*   position of its handler, the events it carries,
                      \*   the index of the one being saved, the list
                      \*   load_events returned, and the status answered

webhook_vars == <<events_file, handlers>>

\* The components looked at on their own.
apart == <<outreach_vars, resolver_vars, webhook_vars>>

\* What lies outside one LangGraphWorkflowBuilder object.
beyond == <<earlier, apart>>

builder_vars == <<workflow_config, environ, env_vars, agents, state, pc, idx,
                  calls, recorded, snapshots, build_outcome, run_built,
                  entered, run_outcome, builds, runs, clock>>

vars == <<workflow_config, environ, env_vars, agents, state, pc, idx, calls,
          recorded, snapshots, build_outcome, run_built, entered, run_outcome,
          builds, runs, clock, beyond>>

\* Bounds of the model.
MaxSteps == 3
MaxRuns == 2
MaxBuilds == 1

-----------------------------------------------------------------------------
(* Python values *)

Null == [t |-> "null"]
Bool(b) == [t |-> "bool", b |-> b]
Num(n) == [t |-> "int", n |-> n]
Str(s) == [t |-> "str", s |-> s]
Dict(d) == [t |-> "dict", d |-> d]
List(l) == [t |-> "list", l |-> l]

EmptyMap == [k \in {} |-> Null]

\* A string of one word.
Word(w) == Str(<<w>>)

\* Python truthiness: None, False, 0, "", [] and {} are falsy.
Truthy(v) ==
    CASE v.t = "null" -> FALSE
      [] v.t = "bool" -> v.b
      [] v.t = "int"  -> v.n # 0
      [] v.t = "str"  -> v.s # <<>>
      [] v.t = "list" -> v.l # <<>>
      [] v.t = "dict" -> DOMAIN v.d # {}

-----------------------------------------------------------------------------
(* String operations used by _prepare_agent_inputs *)

StartsWith(s, p) == Len(s) >= Len(p) /\ SubSeq(s, 1, Len(p)) = p

EndsWith(s, p) == Len(s) >= Len(p) /\ SubSeq(s, Len(s) - Len(p) + 1, Len(s)) = p

\* str.strip(): what lies between the first and the last token that is not
\* white space.
Strip(s) ==
    LET solid == {i \in 1..Len(s) : s[i] # " "}
    IN  IF solid = {} THEN <<>>
        ELSE SubSeq(s, CHOOSE i \in solid : \A j \in solid : i <= j,
                       CHOOSE i \in solid : \A j \in solid : j <= i)

\* str.split('.'): the runs between consecutive dots; always at least one
\* part, and parts may be empty.
Split(s) ==
    LET dots == {i \in 1..Len(s) : s[i] = "."}
        n == Cardinality(dots)
        \* the position of the k-th dot, with the two ends of s for 0 and n+1
        cut(k) == IF k = 0 THEN 0
                  ELSE IF k = n + 1 THEN Len(s) + 1
                  ELSE CHOOSE i \in dots :
                           Cardinality({j \in dots : j < i}) = k - 1
    IN  [k \in 1..(n + 1) |-> SubSeq(s, cut(k - 1) + 1, cut(k) - 1)]

\* str.lower(), on the letters the model's strings use in upper case.
LowerChar(c) ==
    CASE c = "T" -> "t"
      [] c = "R" -> "r"
      [] c = "U" -> "u"
      [] c = "E" -> "e"
      [] c = "F" -> "f"
      [] c = "A" -> "a"
      [] c = "L" -> "l"
      [] c = "S" -> "s"
      [] OTHER   -> c

Lower(s) == [i \in 1..Len(s) |-> LowerChar(s[i])]

\* `part in data` and data[part] for a dict: a part names a key when it is
\* exactly one word.
HasKey(m, part) == Len(part) = 1 /\ part[1] \in DOMAIN m

GetKey(m, part) == m[part[1]]

-----------------------------------------------------------------------------
(* ConfigLoader *)

\* ConfigLoader._load_env: without a .env file env_vars stays empty; with
\* one, ENABLE_DRY_RUN is os.getenv('ENABLE_DRY_RUN','true').lower()=='true'.
LoadEnv(env, dotenv) ==
    IF ~dotenv
    THEN [k \in {} |-> TRUE]
    ELSE [k \in {"ENABLE_DRY_RUN"} |->
             Lower(IF "ENABLE_DRY_RUN" \in DOMAIN env
                   THEN env["ENABLE_DRY_RUN"]
                   ELSE <<"t", "r", "u", "e">>) = <<"t", "r", "u", "e">>]

\* ConfigLoader.is_dry_run: env_vars.get('ENABLE_DRY_RUN', True)
is_dry_run(ev) ==
    IF "ENABLE_DRY_RUN" \in DOMAIN ev THEN ev["ENABLE_DRY_RUN"] ELSE TRUE

\* No OutreachExecutorAgent is at work.
NoOutreach ==
    /\ outreach_pc = "off"
    /\ outreach_inputs = EmptyMap
    /\ sendgrid_client = "none"
    /\ emails_to_send = <<>>
    /\ dry_run = Null
    /\ results = [sent |-> <<>>, failed |-> <<>>]
    /\ bulk_log = <<>>
    /\ outreach_output = Null

\* The webhook server is not running.
NoWebhook ==
    /\ events_file = [readable |-> TRUE, events |-> <<>>]
    /\ handlers = <<>>

\* _prepare_agent_inputs is not looked at on its own.
NoPreparation ==
    /\ prepare_pc = "off"
    /\ resolved_inputs = EmptyMap

-----------------------------------------------------------------------------
(* LangGraphWorkflowBuilder._prepare_agent_inputs *)

\* isinstance(value, str) and value.startswith('{{') and value.endswith('}}')
IsReference(value) ==
    /\ value.t = "str"
    /\ StartsWith(value.s, <<"{", "{">>)
    /\ EndsWith(value.s, <<"}", "}">>)

\* value[2:-2].strip().split('.')
Parts(value) == Split(Strip(SubSeq(value.s, 3, Len(value.s) - 2)))

\* Variant: the comparison with 'true' and 'false' without .lower().
ResolveEnvCaseSensitive(reference, env) ==
    IF HasKey(env, reference)
    THEN LET env_value == GetKey(env, reference)
         IN  IF env_value = <<"t", "r", "u", "e">> THEN Bool(TRUE)
             ELSE IF env_value = <<"f", "a", "l", "s", "e">> THEN Bool(FALSE)
             ELSE Str(env_value)
    ELSE Null

\* Lines 174-189: a single-part reference is an environment variable.
ResolveEnv(reference, env) ==
    IF HasKey(env, reference)
    THEN LET env_value == GetKey(env, reference)
         IN  IF Lower(env_value) = <<"t", "r", "u", "e">> THEN Bool(TRUE)
             ELSE IF Lower(env_value) = <<"f", "a", "l", "s", "e">> THEN Bool(FALSE)
             ELSE Str(env_value)
    ELSE Null

\* Variant: on a miss the walk stops with the value reached so far.
RECURSIVE WalkConfigPartial(_, _, _)
WalkConfigPartial(data, parts, i) ==
    IF i > Len(parts) THEN data
    ELSE IF data.t = "dict" /\ HasKey(data.d, parts[i])
         THEN WalkConfigPartial(GetKey(data.d, parts[i]), parts, i + 1)
         ELSE data

\* Lines 199-205: the walk into the config mapping, from parts[i] on.
RECURSIVE WalkConfig(_, _, _)
WalkConfig(data, parts, i) ==
    IF i > Len(parts) THEN data
    ELSE IF data.t = "dict" /\ HasKey(data.d, parts[i])
         THEN WalkConfig(GetKey(data.d, parts[i]), parts, i + 1)
         ELSE Null

\* Variant: 'output' is skipped without descending into 'data'.
RECURSIVE WalkStateFlat(_, _, _)
WalkStateFlat(data, parts, i) ==
    IF i > Len(parts) THEN data
    ELSE IF parts[i] = <<"output">>
         THEN WalkStateFlat(data, parts, i + 1)
         ELSE IF data.t = "dict" /\ HasKey(data.d, parts[i])
              THEN WalkStateFlat(GetKey(data.d, parts[i]), parts, i + 1)
              ELSE Null

\* Variant: on a miss the walk stops with the value reached so far.
RECURSIVE WalkStatePartial(_, _, _)
WalkStatePartial(data, parts, i) ==
    IF i > Len(parts) THEN data
    ELSE IF parts[i] = <<"output">>
         THEN IF data.t = "dict" /\ "data" \in DOMAIN data.d
              THEN WalkStatePartial(data.d["data"], parts, i + 1)
              ELSE WalkStatePartial(data, parts, i + 1)
         ELSE IF data.t = "dict" /\ HasKey(data.d, parts[i])
              THEN WalkStatePartial(GetKey(data.d, parts[i]), parts, i + 1)
              ELSE data

\* Variant: a segment "0" or "1" selects that element of a list.
RECURSIVE WalkStateIndexing(_, _, _)
WalkStateIndexing(data, parts, i) ==
    IF i > Len(parts) THEN data
    ELSE IF parts[i] = <<"output">>
         THEN IF data.t = "dict" /\ "data" \in DOMAIN data.d
              THEN WalkStateIndexing(data.d["data"], parts, i + 1)
              ELSE WalkStateIndexing(data, parts, i + 1)
         ELSE IF data.t = "dict" /\ HasKey(data.d, parts[i])
              THEN WalkStateIndexing(GetKey(data.d, parts[i]), parts, i + 1)
              ELSE IF data.t = "list" /\ parts[i] = <<"0">> /\ Len(data.l) >= 1
                   THEN WalkStateIndexing(data.l[1], parts, i + 1)
              ELSE IF data.t = "list" /\ parts[i] = <<"1">> /\ Len(data.l) >= 2
                   THEN WalkStateIndexing(data.l[2], parts, i + 1)
              ELSE Null

\* Variant: 'output' on a value without 'data' is a lookup that misses.
RECURSIVE WalkStateRequiringData(_, _, _)
WalkStateRequiringData(data, parts, i) ==
    IF i > Len(parts) THEN data
    ELSE IF parts[i] = <<"output">>
         THEN IF data.t = "dict" /\ "data" \in DOMAIN data.d
              THEN WalkStateRequiringData(data.d["data"], parts, i + 1)
              ELSE Null
         ELSE IF data.t = "dict" /\ HasKey(data.d, parts[i])
              THEN WalkStateRequiringData(GetKey(data.d, parts[i]), parts,
                                          i + 1)
              ELSE Null

\* Variant: 'output' is a marker directly after the stage id only, and the
\* name of a key anywhere else.
RECURSIVE WalkStateMarkerFirstOnly(_, _, _)
WalkStateMarkerFirstOnly(data, parts, i) ==
    IF i > Len(parts) THEN data
    ELSE IF parts[i] = <<"output">> /\ i = 2
         THEN IF data.t = "dict" /\ "data" \in DOMAIN data.d
              THEN WalkStateMarkerFirstOnly(data.d["data"], parts, i + 1)
              ELSE WalkStateMarkerFirstOnly(data, parts, i + 1)
         ELSE IF data.t = "dict" /\ HasKey(data.d, parts[i])
              THEN WalkStateMarkerFirstOnly(GetKey(data.d, parts[i]), parts,
                                            i + 1)
              ELSE Null

\* Lines 214-225: the walk into a stage's entry, from parts[i] on; 'output'
\* descends into 'data' when the current value has it and is otherwise
\* skipped.
RECURSIVE WalkState(_, _, _)
WalkState(data, parts, i) ==
    IF i > Len(parts) THEN data
    ELSE IF parts[i] = <<"output">>
         THEN IF data.t = "dict" /\ "data" \in DOMAIN data.d
              THEN WalkState(data.d["data"], parts, i + 1)
              ELSE WalkState(data, parts, i + 1)
         ELSE IF data.t = "dict" /\ HasKey(data.d, parts[i])
              THEN WalkState(GetKey(data.d, parts[i]), parts, i + 1)
              ELSE Null

\* self.workflow_config.get('config', {})
ConfigOf(wc) == IF "config" \in DOMAIN wc THEN wc["config"] ELSE Dict(EmptyMap)

\* Variant: a reference to an unset variable or to a stage without an entry
\* is passed on as its text.
ResolveValueKeepingText(value, st, wc, env) ==
    IF ~IsReference(value) THEN value
    ELSE LET parts == Parts(value)
         IN  IF Len(parts) = 1
             THEN IF HasKey(env, parts[1]) THEN ResolveEnv(parts[1], env)
                  ELSE value
             ELSE IF parts[1] = <<"config">>
                  THEN WalkConfig(ConfigOf(wc), parts, 2)
                  ELSE IF HasKey(st, parts[1])
                       THEN WalkState(GetKey(st, parts[1]), parts, 2)
                       ELSE value

\* Variant: a string is a reference as soon as it starts with '{{'.
ResolveValueByPrefix(value, st, wc, env) ==
    IF ~(value.t = "str" /\ StartsWith(value.s, <<"{", "{">>)) THEN value
    ELSE LET parts == Parts(value)
         IN  IF Len(parts) = 1 THEN ResolveEnv(parts[1], env)
             ELSE IF parts[1] = <<"config">>
                  THEN WalkConfig(ConfigOf(wc), parts, 2)
                  ELSE IF HasKey(st, parts[1])
                       THEN WalkState(GetKey(st, parts[1]), parts, 2)
                       ELSE Null

\* Variant: the entry of a stage named 'config' goes before the config
\* section of the definition.
ResolveValueStateFirst(value, st, wc, env) ==
    IF ~IsReference(value) THEN value
    ELSE LET parts == Parts(value)
         IN  IF Len(parts) = 1 THEN ResolveEnv(parts[1], env)
             ELSE IF HasKey(st, parts[1])
                  THEN WalkState(GetKey(st, parts[1]), parts, 2)
                  ELSE IF parts[1] = <<"config">>
                       THEN WalkConfig(ConfigOf(wc), parts, 2)
                       ELSE Null

\* Lines 165-240: the value of one input field.
ResolveValue(value, st, wc, env) ==
    IF ~IsReference(value) THEN value
    ELSE LET parts == Parts(value)
         IN  IF Len(parts) = 1 THEN ResolveEnv(parts[1], env)
             ELSE IF parts[1] = <<"config">>
                  THEN WalkConfig(ConfigOf(wc), parts, 2)
                  ELSE IF HasKey(st, parts[1])
                       THEN WalkState(GetKey(st, parts[1]), parts, 2)
                       ELSE Null

\* step.get('inputs', {})
InputsOf(step) == IF "inputs" \in DOMAIN step THEN step["inputs"] ELSE EmptyMap

\* Variant: dry_run is set from the global flag whether declared or not.
_prepare_agent_inputs_forcing_flag(step, st, wc, env, ev) ==
    LET inputs == InputsOf(step)
    IN  [key \in DOMAIN inputs \cup {"dry_run"} |->
            IF key # "dry_run"
            THEN ResolveValue(inputs[key], st, wc, env)
            ELSE Bool(is_dry_run(ev))]

\* Lines 161-246: every field resolved, then the dry_run default.
_prepare_agent_inputs(step, st, wc, env, ev) ==
    LET inputs == InputsOf(step)
    IN  [key \in DOMAIN inputs \cup {"dry_run"} |->
            IF key \in DOMAIN inputs
            THEN ResolveValue(inputs[key], st, wc, env)
            ELSE Bool(is_dry_run(ev))]

-----------------------------------------------------------------------------
(* Stage executors: BaseAgent and the results execute() can hand back *)

\* BaseAgent.format_output
format_output(agent_id, data, now) ==
    Dict([agent_id |-> Word(agent_id), timestamp |-> Num(now),
          data |-> data, status |-> Word("success")])

\* BaseAgent.handle_error
handle_error(agent_id, error, context, now) ==
    Dict([status |-> Word("error"), agent |-> Word(agent_id),
          error |-> Word(error), context |-> Word(context),
          timestamp |-> Num(now)])

\* The class names build_workflow can construct.  The stage bodies call
\* external services; the registry here holds one class per way execute()
\* can end (see Execute).
AGENT_REGISTRY ==
    {"WrapAgent", "RawAgent", "StrictAgent", "ErrorAgent", "RaisingAgent",
     "ListAgent", "MutatingAgent"}

\* What the stage's own logic yields when it succeeds.
Produces(agent) ==
    IF "produces" \in DOMAIN agent.config THEN agent.config["produces"]
    ELSE Dict(EmptyMap)

\* agent.execute(inputs): [raises, value, error].
\*   WrapAgent    returns format_output(result)      (prospect_search.py:126)
\*   RawAgent     returns the result itself          (data_enrichment.py:49)
\*   StrictAgent  fails inside its own try block when an input is None and
\*                returns handle_error(...)          (data_enrichment.py:34,114)
\*   ErrorAgent   always returns handle_error(...)
\*   RaisingAgent lets an exception leave execute()
\*   ListAgent    returns a list, not a mapping
\*   MutatingAgent appends to the list it is handed as 'leads' (see InPlace)
\*                and returns its result itself
Execute(agent, inputs, now) ==
    LET ok(v) == [raises |-> FALSE, value |-> v, error |-> "none"]
        own_error == handle_error(agent.agent_id, "TypeError", "stage", now)
    IN  CASE agent.cls = "WrapAgent" ->
                 ok(format_output(agent.agent_id, Produces(agent), now))
          [] agent.cls = "RawAgent" -> ok(Produces(agent))
          [] agent.cls = "StrictAgent" ->
                 IF \E k \in DOMAIN inputs \ {"dry_run"} : inputs[k] = Null
                 THEN ok(own_error)
                 ELSE ok(format_output(agent.agent_id, Produces(agent), now))
          [] agent.cls = "ErrorAgent" -> ok(own_error)
          [] agent.cls = "RaisingAgent" ->
                 [raises |-> TRUE, value |-> Null, error |-> "RuntimeError"]
          [] agent.cls = "ListAgent" -> ok(List(<<Produces(agent)>>))
          [] agent.cls = "MutatingAgent" -> ok(Produces(agent))

\* Lines 211-227 hand a stage the very object self.state holds, not a copy.
\* The keys that lead from a stage's entry to the value WalkState reaches
\* from parts[i] on.
RECURSIVE AliasPath(_, _, _)
AliasPath(data, parts, i) ==
    IF i > Len(parts) THEN <<>>
    ELSE IF parts[i] = <<"output">>
         THEN IF data.t = "dict" /\ "data" \in DOMAIN data.d
              THEN <<"data">> \o AliasPath(data.d["data"], parts, i + 1)
              ELSE AliasPath(data, parts, i + 1)
         ELSE IF data.t = "dict" /\ HasKey(data.d, parts[i])
              THEN <<parts[i][1]>>
                       \o AliasPath(GetKey(data.d, parts[i]), parts, i + 1)
              ELSE <<>>

\* The mapping v with the value at a path of keys replaced.
RECURSIVE SetAt(_, _, _)
SetAt(v, path, new) ==
    IF path = <<>> THEN new
    ELSE Dict([k \in DOMAIN v.d |->
                  IF k = Head(path) THEN SetAt(v.d[k], Tail(path), new)
                  ELSE v.d[k]])

\* self.state after agent.execute(inputs) has changed its inputs in place:
\* a MutatingAgent appends an element to the list bound to 'leads', and
\* when that list was resolved out of a stage's entry the entry holds the
\* same list.
InPlace(agent, step, st) ==
    IF agent.cls # "MutatingAgent" \/ "leads" \notin DOMAIN InputsOf(step)
    THEN st
    ELSE LET value == InputsOf(step)["leads"]
             parts == Parts(value)
         IN  IF /\ IsReference(value)
                /\ Len(parts) >= 2
                /\ parts[1] # <<"config">>
                /\ HasKey(st, parts[1])
                /\ WalkState(GetKey(st, parts[1]), parts, 2).t = "list"
             THEN [st EXCEPT ![parts[1][1]] =
                      SetAt(@, AliasPath(@, parts, 2),
                            List(Append(WalkState(@, parts, 2).l,
                                        Word("Z"))))]
             ELSE st

-----------------------------------------------------------------------------
(* LangGraphWorkflowBuilder *)

\* Variant: the except branch records the message alone.
FailureEntryWithoutStatus(error) == Dict([error |-> Word(error)])

\* The entry the except branch writes (lines 136-139).
FailureEntry(error) == Dict([error |-> Word(error), status |-> Word("failed")])

\* Variant: an exception of execute() leaves an empty entry behind.
StoredEntryLosingFailure(outcome) ==
    IF outcome.raises \/ ~Truthy(outcome.value) THEN Dict(EmptyMap)
    ELSE IF outcome.value.t # "dict" THEN FailureEntry("AttributeError")
    ELSE outcome.value

\* Variant: the result of execute() is stored as it was returned.
StoredEntryAsReturned(outcome) ==
    IF outcome.raises THEN FailureEntry(outcome.error) ELSE outcome.value

\* Lines 122-139: what ends up in self.state[agent_id] for one outcome of
\* agent.execute.  A truthy result without .get raises AttributeError inside
\* the try block, and the except branch overwrites the entry.
StoredEntry(outcome) ==
    IF outcome.raises THEN FailureEntry(outcome.error)
    ELSE IF ~Truthy(outcome.value) THEN Dict(EmptyMap)
    ELSE IF outcome.value.t # "dict" THEN FailureEntry("AttributeError")
    ELSE outcome.value

\* Lines 124 and 137-139: the values assigned to self.state[agent_id] for
\* one outcome of agent.execute, in the order they are assigned.
StateWrites(outcome) ==
    IF outcome.raises THEN <<FailureEntry(outcome.error)>>
    ELSE IF ~Truthy(outcome.value) THEN <<Dict(EmptyMap)>>
    ELSE IF outcome.value.t # "dict"
         THEN <<outcome.value, FailureEntry("AttributeError")>>
    ELSE <<outcome.value>>

\* self.workflow_config.get('steps', [])
StepsOf(wc) == IF "steps" \in DOMAIN wc THEN wc["steps"] ELSE <<>>

\* Variant: the schema with "minItems": 1 for steps.
validate_workflow_with_min_items(wc) ==
    /\ {"workflow_name", "steps"} \subseteq DOMAIN wc
    /\ wc["workflow_name"].t = "str"
    /\ wc["steps"] # <<>>
    /\ \A i \in 1..Len(wc["steps"]) :
           /\ {"id", "agent", "instructions"} \subseteq DOMAIN wc["steps"][i]
           /\ wc["steps"][i]["instructions"].t = "str"

\* validate_workflow against WORKFLOW_SCHEMA: workflow_name and steps are
\* required and workflow_name is a string; every step needs id, agent and
\* instructions, and instructions is a string.  (Ids and agent names are
\* strings in every definition of the model.)  The schema has no minItems
\* and does not compare the ids of the steps.
validate_workflow(wc) ==
    /\ {"workflow_name", "steps"} \subseteq DOMAIN wc
    /\ wc["workflow_name"].t = "str"
    /\ \A i \in 1..Len(wc["steps"]) :
           /\ {"id", "agent", "instructions"} \subseteq DOMAIN wc["steps"][i]
           /\ wc["steps"][i]["instructions"].t = "str"

\* Lines 77-93: the agents dictionary after the loop over `steps`, starting
\* from `ags`; the loop stops at the first class name not in the registry.
RECURSIVE BuildAgents(_, _)
BuildAgents(steps, ags) ==
    IF steps = <<>> THEN [agents |-> ags, ok |-> TRUE]
    ELSE LET step == Head(steps)
         IN  IF step["agent"] \notin AGENT_REGISTRY
             THEN [agents |-> ags, ok |-> FALSE]
             ELSE BuildAgents(
                      Tail(steps),
                      [id \in DOMAIN ags \cup {step["id"]} |->
                          IF id = step["id"]
                          THEN [cls |-> step["agent"], agent_id |-> step["id"],
                                config |-> step]
                          ELSE ags[id]])

\* Variant: every executor constructed gets an empty entry in state.
BuildWorkflowSeedingState ==
    /\ pc = "idle"
    /\ builds < MaxBuilds
    /\ builds' = builds + 1
    /\ IF ~validate_workflow(workflow_config)
       THEN /\ agents' = agents
            /\ state' = state
            /\ build_outcome' = "invalid"
       ELSE LET b == BuildAgents(StepsOf(workflow_config), agents)
            IN  /\ agents' = b.agents
                /\ state' = [id \in DOMAIN state \cup DOMAIN b.agents |->
                                IF id \in DOMAIN state THEN state[id]
                                ELSE Dict(EmptyMap)]
                /\ build_outcome' = IF b.ok THEN "built" ELSE "unknown agent"
    /\ UNCHANGED beyond
    /\ UNCHANGED <<workflow_config, environ, env_vars, pc, idx, calls,
                   recorded, snapshots, run_built, entered, run_outcome, runs,
                   clock>>

\* build_workflow(): it returns ("built") or raises ValueError, for a
\* definition the schema rejects ("invalid", line 72) or for a class name
\* that is not in the registry ("unknown agent", line 84).
BuildWorkflow ==
    /\ pc = "idle"
    /\ builds < MaxBuilds
    /\ builds' = builds + 1
    /\ IF ~validate_workflow(workflow_config)
       THEN /\ agents' = agents
            /\ build_outcome' = "invalid"
       ELSE LET b == BuildAgents(StepsOf(workflow_config), agents)
            IN  /\ agents' = b.agents
                /\ build_outcome' = IF b.ok THEN "built" ELSE "unknown agent"
    /\ UNCHANGED beyond
    /\ UNCHANGED <<workflow_config, environ, env_vars, state, pc, idx, calls,
                   recorded, snapshots, run_built, entered, run_outcome, runs,
                   clock>>

\* Variant: execute_workflow starts from an empty state.
StartExecuteClearingState ==
    /\ pc = "idle"
    /\ runs < MaxRuns
    /\ runs' = runs + 1
    /\ idx' = 1
    /\ calls' = <<>>
    /\ recorded' = <<>>
    /\ run_built' = (build_outcome = "built")
    /\ state' = EmptyMap
    /\ entered' = [state |-> EmptyMap, snapshots |-> Len(snapshots)]
    /\ run_outcome' = "none"
    /\ pc' = IF StepsOf(workflow_config) = <<>> THEN "save" ELSE "loop"
    /\ UNCHANGED beyond
    /\ UNCHANGED <<workflow_config, environ, env_vars, agents, snapshots,
                   build_outcome, builds, clock>>

\* execute_workflow() is entered: lines 105-111.
StartExecute ==
    /\ pc = "idle"
    /\ runs < MaxRuns
    /\ runs' = runs + 1
    /\ idx' = 1
    /\ calls' = <<>>
    /\ recorded' = <<>>
    /\ run_built' = (build_outcome = "built")
    /\ entered' = [state |-> state, snapshots |-> Len(snapshots)]
    /\ run_outcome' = "none"
    /\ pc' = IF StepsOf(workflow_config) = <<>> THEN "save" ELSE "loop"
    /\ UNCHANGED beyond
    /\ UNCHANGED <<workflow_config, environ, env_vars, agents, state,
                   snapshots, build_outcome, builds, clock>>

\* Variant: the loop is left as soon as a step leaves an entry with an error.
AfterStepHalting(i, n, entry) ==
    [idx |-> i + 1,
     pc |-> IF i >= n \/ "error" \in DOMAIN entry.d THEN "save" ELSE "loop"]

\* Line 111: the for loop goes on to the next step whatever entry the
\* step at index i of n left, and leaves the loop after the last one.
AfterStep(i, n, entry) ==
    [idx |-> i + 1, pc |-> IF i >= n THEN "save" ELSE "loop"]

\* One iteration of the loop of execute_workflow: lines 111-140.
ExecuteStep ==
    /\ pc = "loop"
    /\ LET steps == StepsOf(workflow_config)
           step == steps[idx]
           agent_id == step["id"]
       IN  IF "id" \notin DOMAIN step \/ agent_id \notin DOMAIN agents
           THEN \* step['id'] or self.agents[agent_id] raises KeyError out of
                \* the call
                /\ pc' = "idle"
                /\ run_outcome' = "KeyError"
                /\ UNCHANGED <<state, idx, calls, recorded, clock>>
           ELSE \E agent \in {agents[agent_id]} :
                \E inputs \in {_prepare_agent_inputs(step, state,
                                    workflow_config, environ, env_vars)} :
                \E outcome \in {Execute(agent, inputs, clock)} :
                \E entry \in {StoredEntry(outcome)} :
                \E after \in {AfterStep(idx, Len(steps), entry)} :
                \E touched \in {InPlace(agent, step, state)} :
                    /\ calls' = Append(calls, [id |-> agent_id,
                                               cls |-> agent.cls,
                                               inputs |-> inputs,
                                               before |-> state,
                                               writes |-> StateWrites(outcome)])
                    /\ state' = [id \in DOMAIN state \cup {agent_id} |->
                                    IF id = agent_id THEN entry ELSE touched[id]]
                    /\ recorded' = Append(recorded, entry)
                    /\ clock' = clock + 1
                    /\ idx' = after.idx
                    /\ pc' = after.pc
                    /\ run_outcome' = run_outcome
    /\ UNCHANGED beyond
    /\ UNCHANGED <<workflow_config, environ, env_vars, agents, snapshots,
                   build_outcome, run_built, entered, builds, runs>>

\* Variant: execute_workflow returns without writing the file.
SaveResultsSkipped ==
    /\ pc = "save"
    /\ pc' = "idle"
    /\ run_outcome' = "returned"
    /\ UNCHANGED beyond
    /\ UNCHANGED <<workflow_config, environ, env_vars, agents, state, idx,
                   calls, recorded, snapshots, build_outcome, run_built,
                   entered, builds, runs, clock>>

\* Variant: only the entries without an error are written to the file.
SaveResultsWithoutFailures ==
    /\ pc = "save"
    /\ pc' = "idle"
    /\ \/ /\ snapshots' =
                 Append(snapshots,
                        [id \in {i \in DOMAIN state :
                                    "error" \notin DOMAIN state[i].d} |->
                            state[id]])
          /\ run_outcome' = "returned"
       \/ /\ snapshots' = snapshots
          /\ run_outcome' = "OSError"
    /\ UNCHANGED beyond
    /\ UNCHANGED <<workflow_config, environ, env_vars, agents, state, idx,
                   calls, recorded, build_outcome, run_built, entered, builds,
                   runs, clock>>

\* Variant: an error of the write is logged and execute_workflow returns.
SaveResultsSwallowing ==
    /\ pc = "save"
    /\ pc' = "idle"
    /\ \/ snapshots' = Append(snapshots, state)
       \/ snapshots' = snapshots
    /\ run_outcome' = "returned"
    /\ UNCHANGED beyond
    /\ UNCHANGED <<workflow_config, environ, env_vars, agents, state, idx,
                   calls, recorded, build_outcome, run_built, entered, builds,
                   runs, clock>>

\* _save_results() and the return of execute_workflow: lines 147-149 and
\* 248-260.  Creating the directory or writing the file can fail, and the
\* error leaves execute_workflow.
SaveResults ==
    /\ pc = "save"
    /\ pc' = "idle"
    /\ \/ /\ snapshots' = Append(snapshots, state)
          /\ run_outcome' = "returned"
       \/ /\ snapshots' = snapshots
          /\ run_outcome' = "OSError"
    /\ UNCHANGED beyond
    /\ UNCHANGED <<workflow_config, environ, env_vars, agents, state, idx,
                   calls, recorded, build_outcome, run_built, entered, builds,
                   runs, clock>>

-----------------------------------------------------------------------------
(* The workflows, configurations and environments the model runs *)

RECURSIVE Dotted(_)
Dotted(words) ==
    IF Len(words) = 1 THEN words
    ELSE <<Head(words), ".">> \o Dotted(Tail(words))

\* The placeholder "{{a.b.c}}" for <<"a", "b", "c">>.
Ref(words) == Str(<<"{", "{">> \o Dotted(words) \o <<"}", "}">>)

LeadA == Word("A")
LeadB == Word("B")

FindStep(cls) ==
    [id |-> "find", agent |-> cls, instructions |-> Word("search"),
     inputs |-> [query |-> Word("saas"),
                 sender |-> Ref(<<"SENDER_NAME">>),
                 previous |-> Ref(<<"rank", "output", "ranked">>)],
     produces |-> Dict([leads |-> List(<<LeadA, LeadB>>)])]

ConfigStep ==
    [id |-> "config", agent |-> "WrapAgent", instructions |-> Word("tune"),
     produces |-> Dict([x |-> Word("staged"), output |-> Word("inner")])]

RankStep ==
    [id |-> "rank", agent |-> "StrictAgent", instructions |-> Word("score"),
     inputs |-> [leads |-> Ref(<<"find", "output", "leads">>),
                 min_score |-> Ref(<<"config", "scoring", "min_score">>)],
     produces |-> Dict([ranked |-> List(<<LeadB, LeadA>>),
                        output |-> Word("inner")])]

NotifyStep ==
    [id |-> "notify", agent |-> "WrapAgent", instructions |-> Word("send"),
     inputs |-> [top |-> Ref(<<"rank", "output", "ranked", "0">>),
                 dry_run |-> Ref(<<"ENABLE_DRY_RUN">>)],
     produces |-> Dict([sent |-> Bool(TRUE)])]

\* A step that changes the leads of 'find' in place.
TouchStep ==
    [id |-> "touch", agent |-> "MutatingAgent", instructions |-> Word("tag"),
     inputs |-> [leads |-> Ref(<<"find", "output", "leads">>)],
     produces |-> Dict([touched |-> Bool(TRUE)])]

\* A step whose agent class is not in the registry.
GhostStep ==
    [id |-> "ghost", agent |-> "UnknownAgent", instructions |-> Word("none")]

AuditStep ==
    [id |-> "audit", agent |-> "RawAgent", instructions |-> Word("audit"),
     inputs |-> [leads |-> Ref(<<"find", "output", "leads">>),
                 spaced |-> Str(<<"{", "{", " ", "find", ".", "output", ".",
                                  "leads", " ", "}", "}">>),
                 absent |-> Ref(<<"find", "output", "nope">>),
                 why |-> Ref(<<"find", "output", "error">>),
                 whole |-> Ref(<<"find", "output", "output">>),
                 how |-> Ref(<<"find", "output", "status">>),
                 deep |-> Ref(<<"find", "output", "leads", "first">>),
                 ranked |-> Ref(<<"rank", "output", "ranked">>),
                 marker |-> Ref(<<"rank", "output", "output">>),
                 staged |-> Ref(<<"config", "output", "x">>),
                 min_score |-> Ref(<<"config", "scoring", "min_score">>),
                 scoring |-> Ref(<<"config", "scoring">>),
                 too_deep |-> Ref(<<"config", "scoring", "min_score", "x">>),
                 no_section |-> Ref(<<"config", "limits", "daily">>),
                 sent |-> Ref(<<"notify", "output", "sent">>),
                 own |-> Ref(<<"audit", "output", "leads">>),
                 flag |-> Ref(<<"ENABLE_DRY_RUN">>),
                 sender |-> Ref(<<"SENDER_NAME">>),
                 unset |-> Ref(<<"API_TOKEN">>),
                 empty |-> Str(<<"{", "{", "}", "}">>),
                 text |-> Str(<<"see", " ", "{", "{", "find", "}", "}", " ">>),
                 limit |-> Num(5)],
     produces |-> Dict([checked |-> Bool(TRUE)])]

\* The steps a workflow.json of the model is written with, in the order
\* they appear in it.
Catalogue ==
    <<FindStep("WrapAgent"), FindStep("RawAgent"), FindStep("RaisingAgent"),
      FindStep("ErrorAgent"), FindStep("ListAgent"), ConfigStep, RankStep,
      GhostStep, TouchStep, NotifyStep, AuditStep>>

\* Every selection of at most MaxSteps steps of the catalogue.
StepLists ==
    LET picks == UNION {[1..n -> 1..Len(Catalogue)] : n \in 0..MaxSteps}
        rising == {p \in picks : \A i \in 1..(Len(p) - 1) : p[i] < p[i + 1]}
    IN  {[i \in 1..Len(p) |-> Catalogue[p[i]]] : p \in rising}

WorkflowSettings ==
    Dict([scoring |-> Dict([min_score |-> Num(60)]),
          output |-> Dict([x |-> Word("configured")])])

\* The process environment, whether a .env file exists, and whether
\* workflow.json has a "config" section.
Worlds ==
    {[environ |-> [SENDER_NAME |-> <<"Ana">>],
      dotenv |-> FALSE, config |-> TRUE],
     [environ |-> [SENDER_NAME |-> <<"Ana">>,
                   ENABLE_DRY_RUN |-> <<"T", "R", "U", "E">>],
      dotenv |-> TRUE, config |-> TRUE],
     [environ |-> [ENABLE_DRY_RUN |-> <<"F", "a", "l", "s", "e">>],
      dotenv |-> FALSE, config |-> FALSE],
     [environ |-> [SENDER_NAME |-> <<"Ana">>,
                   ENABLE_DRY_RUN |-> <<"y", "e", "s">>],
      dotenv |-> TRUE, config |-> TRUE]}

Workflow(steps, with_config) ==
    IF with_config
    THEN [workflow_name |-> Word("leads"), steps |-> steps,
          config |-> WorkflowSettings]
    ELSE [workflow_name |-> Word("leads"), steps |-> steps]

\* Definitions the schema has something to say about: without a name, with
\* a name that is not a string, without steps, and with a step that lacks
\* its id, its agent, its instructions, or has instructions that are not a
\* string.
Malformed ==
    {[steps |-> <<FindStep("WrapAgent")>>],
     [workflow_name |-> Num(7), steps |-> <<FindStep("WrapAgent")>>],
     [workflow_name |-> Word("leads")],
     Workflow(<<[agent |-> "WrapAgent", instructions |-> Word("search")]>>,
              TRUE),
     Workflow(<<FindStep("WrapAgent"),
                [id |-> "rank", instructions |-> Word("score")]>>, TRUE),
     Workflow(<<[id |-> "find", agent |-> "WrapAgent"]>>, TRUE),
     Workflow(<<[id |-> "find", agent |-> "WrapAgent",
                 instructions |-> Num(1)]>>, TRUE)}

\* The contents of workflow.json in world w.
Definitions(w) ==
    {Workflow(steps, w.config) : steps \in StepLists} \cup Malformed

\* LangGraphWorkflowBuilder.__init__ (lines 49-61)
Init ==
    /\ \E w \in Worlds :
           /\ workflow_config \in Definitions(w)
           /\ environ = w.environ
           /\ env_vars = LoadEnv(w.environ, w.dotenv)
    /\ agents = [id \in {} |-> Null]
    /\ state = EmptyMap
    /\ pc = "idle"
    /\ idx = 1
    /\ calls = <<>>
    /\ recorded = <<>>
    /\ snapshots = <<>>
    /\ build_outcome = "none"
    /\ run_built = FALSE
    /\ entered = [state |-> EmptyMap, snapshots |-> 0]
    /\ run_outcome = "none"
    /\ builds = 0
    /\ runs = 0
    /\ clock = 0
    /\ earlier = <<>>
    /\ NoOutreach
    /\ NoPreparation
    /\ NoWebhook

Next == BuildWorkflow \/ StartExecute \/ ExecuteStep \/ SaveResults

Spec == Init /\ [][Next]_vars

-----------------------------------------------------------------------------
(* One process after another: main() constructs a builder, builds and runs *)
(* it and exits; the next process starts over the same workflow.json and   *)
(* the same environment.                                                   *)

MaxProcesses == 2

\* Variant: the new builder starts with the state of the one before it.
ConstructKeepingState ==
    /\ pc = "idle"
    /\ build_outcome \in {"invalid", "unknown agent"} \/ run_outcome # "none"
    /\ Len(earlier) < MaxProcesses - 1
    /\ earlier' = Append(earlier, [state |-> state,
                                   snapshots |-> snapshots,
                                   build_outcome |-> build_outcome,
                                   run_outcome |-> run_outcome,
                                   runs |-> runs])
    /\ agents' = [id \in {} |-> Null]
    /\ state' = state
    /\ idx' = 1
    /\ calls' = <<>>
    /\ recorded' = <<>>
    /\ build_outcome' = "none"
    /\ run_built' = FALSE
    /\ entered' = [state |-> state, snapshots |-> Len(snapshots)]
    /\ run_outcome' = "none"
    /\ builds' = 0
    /\ runs' = 0
    /\ UNCHANGED <<workflow_config, environ, env_vars, pc, snapshots, clock>>
    /\ UNCHANGED apart

\* The process ends, after build_workflow raised or after a call of
\* execute_workflow ended (main, lines 324-346), and the next one constructs
\* its builder: __init__ (lines 49-61).  The files under output/ and the
\* clock are the only things that outlive the process.
Construct ==
    /\ pc = "idle"
    /\ build_outcome \in {"invalid", "unknown agent"} \/ run_outcome # "none"
    /\ Len(earlier) < MaxProcesses - 1
    /\ earlier' = Append(earlier, [state |-> state,
                                   snapshots |-> snapshots,
                                   build_outcome |-> build_outcome,
                                   run_outcome |-> run_outcome,
                                   runs |-> runs])
    /\ agents' = [id \in {} |-> Null]
    /\ state' = EmptyMap
    /\ idx' = 1
    /\ calls' = <<>>
    /\ recorded' = <<>>
    /\ build_outcome' = "none"
    /\ run_built' = FALSE
    /\ entered' = [state |-> EmptyMap, snapshots |-> Len(snapshots)]
    /\ run_outcome' = "none"
    /\ builds' = 0
    /\ runs' = 0
    /\ UNCHANGED <<workflow_config, environ, env_vars, pc, snapshots, clock>>
    /\ UNCHANGED apart

\* A stage that fails on an input that is None and is declared before the
\* stage it refers to.
EarlyStep ==
    [id |-> "early", agent |-> "StrictAgent", instructions |-> Word("peek"),
     inputs |-> [later |-> Ref(<<"notify", "output", "sent">>)],
     produces |-> Dict([seen |-> Bool(TRUE)])]

ProcessCatalogue == <<EarlyStep, FindStep("WrapAgent"), TouchStep, NotifyStep>>

\* Every selection of at most MaxSteps steps of a catalogue, in its order.
SelectionsOf(catalogue) ==
    LET picks == UNION {[1..n -> 1..Len(catalogue)] : n \in 0..MaxSteps}
        rising == {p \in picks : \A i \in 1..(Len(p) - 1) : p[i] < p[i + 1]}
    IN  {[i \in 1..Len(p) |-> catalogue[p[i]]] : p \in rising}

\* The environment and .env file all the processes run in.
ProcessWorlds ==
    {[environ |-> [SENDER_NAME |-> <<"Ana">>,
                   ENABLE_DRY_RUN |-> <<"T", "R", "U", "E">>],
      dotenv |-> TRUE, config |-> TRUE]}

\* LangGraphWorkflowBuilder.__init__ (lines 49-61) of the first process.
InitProcesses ==
    /\ \E w \in ProcessWorlds :
           /\ workflow_config \in
                  {Workflow(steps, w.config) :
                       steps \in SelectionsOf(ProcessCatalogue)}
           /\ environ = w.environ
           /\ env_vars = LoadEnv(w.environ, w.dotenv)
    /\ agents = [id \in {} |-> Null]
    /\ state = EmptyMap
    /\ pc = "idle"
    /\ idx = 1
    /\ calls = <<>>
    /\ recorded = <<>>
    /\ snapshots = <<>>
    /\ build_outcome = "none"
    /\ run_built = FALSE
    /\ entered = [state |-> EmptyMap, snapshots |-> 0]
    /\ run_outcome = "none"
    /\ builds = 0
    /\ runs = 0
    /\ clock = 0
    /\ earlier = <<>>
    /\ NoOutreach
    /\ NoPreparation
    /\ NoWebhook

NextProcesses ==
    BuildWorkflow \/ StartExecute \/ ExecuteStep \/ SaveResults \/ Construct

SpecProcesses == InitProcesses /\ [][NextProcesses]_vars

-----------------------------------------------------------------------------
(* The dispatch stage: OutreachExecutorAgent.execute                       *)
(* (src/agents/outreach_executor.py) and SendGridClient.send_bulk_emails   *)
(* (src/tools/sendgrid_client.py), called with the inputs the orchestrator *)
(* resolved for a 'send' step.                                             *)

MaxMessages == 2

\* Everything but the dispatch stage.
outside_outreach == <<builder_vars, earlier, resolver_vars, webhook_vars>>

Message(to) ==
    Dict([lead_email |-> Word(to), subject |-> Word("hello"),
          email_body |-> Word("text")])

\* A message without its subject.
Headless(to) == Dict([lead_email |-> Word(to), email_body |-> Word("text")])

MessageLists ==
    UNION {[1..n -> {Message("a"), Message("b"), Headless("c")}] :
               n \in 0..MaxMessages}

\* What workflow.json binds to the 'messages' input: a list, or a reference
\* to a stage that left no entry.
MessageBindings ==
    {List(ms) : ms \in MessageLists}
        \cup {Ref(<<"compose", "output", "messages">>)}

\* What workflow.json binds to the 'dry_run' input when it declares one:
\* true, false, null, a string, {{ENABLE_DRY_RUN}}, and {{DRY_RUN}}, a
\* variable no environment of the model sets.
DryRunBindings ==
    {Bool(TRUE), Bool(FALSE), Null, Word("no"), Ref(<<"ENABLE_DRY_RUN">>),
     Ref(<<"DRY_RUN">>)}

\* The 'send' steps of the model, with and without a dry_run input.
SendSteps ==
    {[id |-> "send", agent |-> "OutreachExecutorAgent",
      instructions |-> Word("send"),
      inputs |-> [messages |-> m, dry_run |-> b]] :
         m \in MessageBindings, b \in DryRunBindings}
    \cup
    {[id |-> "send", agent |-> "OutreachExecutorAgent",
      instructions |-> Word("send"),
      inputs |-> [messages |-> m]] : m \in MessageBindings}

\* Variant: a dry_run of None counts as the default.
DryRunOfNoneAsDefault(inputs) ==
    IF "dry_run" \in DOMAIN inputs /\ inputs["dry_run"] # Null
    THEN inputs["dry_run"]
    ELSE Bool(TRUE)

\* outreach_executor.py:35: inputs.get('dry_run', True)
DryRunOf(inputs) ==
    IF "dry_run" \in DOMAIN inputs THEN inputs["dry_run"] ELSE Bool(TRUE)

\* outreach_executor.py:34: inputs.get('messages', [])
MessagesOf(inputs) ==
    IF "messages" \in DOMAIN inputs THEN inputs["messages"] ELSE List(<<>>)

\* Variant: every email goes to send_email.
RouteAlwaysLive(flag) == "send_email"

\* sendgrid_client.py:225-235: `if dry_run:` chooses the method.
Route(flag) == IF Truthy(flag) THEN "_simulate_send" ELSE "send_email"

\* SendGridClient._simulate_send (lines 249-259)
Simulated(email_data) ==
    Dict([status |-> Word("sent"), message_id |-> Word("sim"),
          to |-> email_data.d["to"], subject |-> email_data.d["subject"],
          simulated |-> Bool(TRUE)])

\* What the chosen method can hand back for one email.  send_email (lines
\* 64-120) simulates when the client has no API key and otherwise asks the
\* SendGrid service, which accepts the message or fails.
Deliveries(via, client, email_data) ==
    IF via = "_simulate_send" \/ client = "none"
    THEN {Simulated(email_data)}
    ELSE {Dict([status |-> Word("sent"), message_id |-> Word("unknown"),
                to |-> email_data.d["to"],
                subject |-> email_data.d["subject"],
                status_code |-> Num(202)]),
          Dict([status |-> Word("failed"), to |-> email_data.d["to"],
                error |-> Word("HTTPError")])}

\* The orchestrator has resolved the inputs of the 'send' step (line 118)
\* and is about to call agent.execute(inputs) (line 122).
InitOutreach ==
    /\ \E w \in Worlds : \E step \in SendSteps :
           /\ workflow_config = Workflow(<<step>>, w.config)
           /\ environ = w.environ
           /\ env_vars = LoadEnv(w.environ, w.dotenv)
           /\ outreach_inputs =
                  _prepare_agent_inputs(step, EmptyMap,
                                        Workflow(<<step>>, w.config),
                                        w.environ,
                                        LoadEnv(w.environ, w.dotenv))
    /\ agents = [id \in {} |-> Null]
    /\ state = EmptyMap
    /\ pc = "loop"
    /\ idx = 1
    /\ calls = <<>>
    /\ recorded = <<>>
    /\ snapshots = <<>>
    /\ build_outcome = "built"
    /\ run_built = TRUE
    /\ entered = [state |-> EmptyMap, snapshots |-> 0]
    /\ run_outcome = "none"
    /\ builds = 1
    /\ runs = 1
    /\ clock = 0
    /\ earlier = <<>>
    /\ outreach_pc = "call"
    /\ sendgrid_client \in {"none", "api"}
    /\ emails_to_send = <<>>
    /\ dry_run = Null
    /\ results = [sent |-> <<>>, failed |-> <<>>]
    /\ bulk_log = <<>>
    /\ outreach_output = Null
    /\ NoPreparation
    /\ NoWebhook

\* execute() up to the call of send_bulk_emails (lines 33-63).  len() of a
\* messages that is None and a message without one of its three keys raise
\* inside the try block, and execute returns handle_error(...).
OutreachExecute ==
    /\ outreach_pc = "call"
    /\ LET messages == MessagesOf(outreach_inputs)
       IN  /\ dry_run' = DryRunOf(outreach_inputs)
           /\ IF messages.t # "list"
              THEN /\ outreach_output' =
                          handle_error("send", "TypeError",
                                       "outreach execution", clock)
                   /\ outreach_pc' = "done"
                   /\ emails_to_send' = emails_to_send
              ELSE IF \E i \in 1..Len(messages.l) :
                          ~({"lead_email", "subject", "email_body"}
                                \subseteq DOMAIN messages.l[i].d)
              THEN /\ outreach_output' =
                          handle_error("send", "KeyError",
                                       "outreach execution", clock)
                   /\ outreach_pc' = "done"
                   /\ emails_to_send' = emails_to_send
              ELSE /\ emails_to_send' =
                          [i \in 1..Len(messages.l) |->
                              Dict([to |-> messages.l[i].d["lead_email"],
                                    subject |-> messages.l[i].d["subject"],
                                    body |-> messages.l[i].d["email_body"]])]
                   /\ outreach_pc' = "bulk"
                   /\ outreach_output' = outreach_output
    /\ UNCHANGED <<outreach_inputs, sendgrid_client, results, bulk_log>>
    /\ UNCHANGED outside_outreach

\* One iteration of the loop of send_bulk_emails (lines 224-240).
SendNext ==
    /\ outreach_pc = "bulk"
    /\ Len(bulk_log) < Len(emails_to_send)
    /\ LET email_data == emails_to_send[Len(bulk_log) + 1]
           via == Route(dry_run)
       IN  /\ \E result \in Deliveries(via, sendgrid_client, email_data) :
                  results' =
                      IF result.d["status"] = Word("sent")
                      THEN [results EXCEPT !.sent = Append(@, result)]
                      ELSE [results EXCEPT !.failed = Append(@, result)]
           /\ bulk_log' =
                  Append(bulk_log,
                         [to |-> email_data.d["to"], via |-> via,
                          network |-> via = "send_email"
                                          /\ sendgrid_client = "api"])
    /\ UNCHANGED <<outreach_pc, outreach_inputs, sendgrid_client,
                   emails_to_send, dry_run, outreach_output>>
    /\ UNCHANGED outside_outreach

\* send_bulk_emails returns and execute formats its result (lines 65-103).
OutreachReturn ==
    /\ outreach_pc = "bulk"
    /\ Len(bulk_log) = Len(emails_to_send)
    /\ outreach_pc' = "done"
    /\ outreach_output' =
           format_output(
               "send",
               Dict([campaign_id |-> Num(clock),
                     sent_status |->
                         List([i \in 1..Len(results.sent) |->
                                   Dict([lead_email |-> results.sent[i].d["to"],
                                         status |-> Word("sent"),
                                         message_id |->
                                             results.sent[i].d["message_id"],
                                         sent_at |-> Num(clock),
                                         error |-> Null])]
                              \o
                              [i \in 1..Len(results.failed) |->
                                   Dict([lead_email |->
                                             results.failed[i].d["to"],
                                         status |-> Word("failed"),
                                         message_id |-> Null,
                                         sent_at |-> Num(clock),
                                         error |->
                                             results.failed[i].d["error"]])]),
                     summary |->
                         Dict([total |-> Num(Len(emails_to_send)),
                               sent |-> Num(Len(results.sent)),
                               failed |-> Num(Len(results.failed)),
                               skipped |-> Num(0)])]),
               clock)
    /\ UNCHANGED <<outreach_inputs, sendgrid_client, emails_to_send, dry_run,
                   results, bulk_log>>
    /\ UNCHANGED outside_outreach

NextOutreach == OutreachExecute \/ SendNext \/ OutreachReturn

SpecOutreach == InitOutreach /\ [][NextOutreach]_vars

-----------------------------------------------------------------------------
(* _prepare_agent_inputs on its own: one step with one input field,        *)
(* resolved against a state that stages 's' and 'config' may have written  *)
(* to.                                                                     *)

MaxPath == 4

\* Everything but the call of _prepare_agent_inputs.
outside_resolver == <<builder_vars, earlier, outreach_vars, webhook_vars>>

\* What a stage's own logic can yield: plain fields, a field named
\* 'output', a field named 'data', and a nested mapping with a 'data' key.
Payloads ==
    {Dict([x |-> Word("v"), a |-> Dict([b |-> Word("w")]),
           output |-> Word("inner")]),
     Dict([x |-> Word("top"), data |-> Dict([x |-> Word("deep")])]),
     Dict([data |-> Word("v")]),
     Dict([a |-> Dict([b |-> Word("beside"),
                       data |-> Dict([b |-> Word("under")])])])}

\* The entries execute_workflow can have recorded for a stage: a payload
\* returned as it is, a payload wrapped by format_output, a failure.
EntriesOf(id) ==
    Payloads
        \cup {format_output(id, p, 0) : p \in Payloads}
        \cup {FailureEntry("RuntimeError"),
              handle_error(id, "TypeError", "stage", 0)}

\* self.state when the step's inputs are resolved.
ResolverStates ==
    {EmptyMap}
        \cup {[id \in {"s"} |-> e] : e \in EntriesOf("s")}
        \cup {[id \in {"config"} |-> e] :
                  e \in {format_output("config",
                                       Dict([x |-> Word("staged"),
                                             scoring |-> Word("staged")]),
                                       0),
                         Dict([x |-> Word("staged")])}}

\* The sequences of one to n of the given words.
PathsOver(words, n) == UNION {[1..k -> words] : k \in 1..n}

\* Values of an input field that are not references: not strings, strings
\* that contain a reference, strings with only the opening or only the
\* closing braces, with white space outside the braces, with single braces.
Literals ==
    {Num(5), Bool(TRUE), Null, Word("saas"), Str(<<>>),
     List(<<Ref(<<"s", "output", "x">>)>>),
     Dict([inner |-> Ref(<<"s", "output", "x">>)]),
     Str(<<"see", " ", "{", "{", "s", ".", "output", ".", "x", "}", "}">>),
     Str(<<"{", "{", "s", ".", "output", ".", "x", "}", "}", " ", "!">>),
     Str(<<"{", "{", "s", ".", "output", ".", "x">>),
     Str(<<"s", ".", "output", ".", "x", "}", "}">>),
     Str(<<" ", "{", "{", "s", ".", "output", ".", "x", "}", "}">>),
     Str(<<"{", "{", "s", ".", "output", ".", "x", "}", "}", " ">>),
     Str(<<"{", "s", ".", "output", ".", "x", "}">>),
     Str(<<"{", "{", "s", ".", "output", ".", "x", "}">>),
     Str(<<"{", "{">>),
     Str(<<"}", "}">>),
     Str(<<"{", "{", "}">>),
     Str(<<"{", "{", "SENDER_NAME">>),
     Str(<<"{", "{", "config", ".", "x", "}">>)}

\* The values workflow.json gives the input field: the literals, and the
\* references to stage 's', to the config section and to the environment.
Expressions ==
    Literals
        \cup {Ref(<<"s">> \o path) :
                  path \in PathsOver({"output", "x", "a", "b", "data"},
                                     MaxPath)}
        \cup {Ref(<<"config">> \o path) :
                  path \in PathsOver({"output", "x", "scoring", "min_score"},
                                     2)}
        \cup {Ref(<<"SENDER_NAME">>), Ref(<<"ENABLE_DRY_RUN">>),
              Ref(<<"config">>), Ref(<<"s">>)}

ProbeStep(value) ==
    [id |-> "probe", agent |-> "RawAgent", instructions |-> Word("probe"),
     inputs |-> [value |-> value]]

\* execute_workflow is about to resolve the inputs of the step (line 118).
InitResolver ==
    /\ \E w \in Worlds : \E value \in Expressions :
           /\ workflow_config = Workflow(<<ProbeStep(value)>>, w.config)
           /\ environ = w.environ
           /\ env_vars = LoadEnv(w.environ, w.dotenv)
    /\ state \in ResolverStates
    /\ agents = [id \in {} |-> Null]
    /\ pc = "loop"
    /\ idx = 1
    /\ calls = <<>>
    /\ recorded = <<>>
    /\ snapshots = <<>>
    /\ build_outcome = "built"
    /\ run_built = TRUE
    /\ entered = [state |-> state, snapshots |-> 0]
    /\ run_outcome = "none"
    /\ builds = 1
    /\ runs = 1
    /\ clock = 1
    /\ earlier = <<>>
    /\ NoOutreach
    /\ NoWebhook
    /\ prepare_pc = "call"
    /\ resolved_inputs = EmptyMap

\* _prepare_agent_inputs(step) (lines 151-246).
PrepareInputs ==
    /\ prepare_pc = "call"
    /\ prepare_pc' = "done"
    /\ resolved_inputs' =
           _prepare_agent_inputs(StepsOf(workflow_config)[1], state,
                                 workflow_config, environ, env_vars)
    /\ UNCHANGED outside_resolver

NextResolver == PrepareInputs

SpecResolver == InitResolver /\ [][NextResolver]_vars

-----------------------------------------------------------------------------
(* Workflows of stages that hand back something else than a mapping, and   *)
(* of stages that refer to themselves or to a stage declared after them.   *)

\* A stage that returns the given value as it is.
ReturnStep(id, value) ==
    [id |-> id, agent |-> "RawAgent", instructions |-> Word("return"),
     produces |-> value]

\* A stage that refers to its own result.
SelfStep ==
    [id |-> "self", agent |-> "WrapAgent", instructions |-> Word("again"),
     inputs |-> [mine |-> Ref(<<"self", "output", "seen">>),
                 whole |-> Ref(<<"self", "output", "output">>),
                 how |-> Ref(<<"self", "output", "status">>)],
     produces |-> Dict([seen |-> Bool(TRUE)])]

ReturnsCatalogue ==
    <<FindStep("WrapAgent"), FindStep("ListAgent"), RankStep, SelfStep,
      ReturnStep("none", Null), ReturnStep("empty", Dict(EmptyMap)),
      ReturnStep("nothing", List(<<>>)), ReturnStep("text", Word("done")),
      ReturnStep("number", Num(3))>>

\* LangGraphWorkflowBuilder.__init__ (lines 49-61) over such a workflow.
InitReturns ==
    /\ \E w \in Worlds :
           /\ workflow_config \in
                  {Workflow(steps, w.config) :
                       steps \in SelectionsOf(ReturnsCatalogue)}
           /\ environ = w.environ
           /\ env_vars = LoadEnv(w.environ, w.dotenv)
    /\ agents = [id \in {} |-> Null]
    /\ state = EmptyMap
    /\ pc = "idle"
    /\ idx = 1
    /\ calls = <<>>
    /\ recorded = <<>>
    /\ snapshots = <<>>
    /\ build_outcome = "none"
    /\ run_built = FALSE
    /\ entered = [state |-> EmptyMap, snapshots |-> 0]
    /\ run_outcome = "none"
    /\ builds = 0
    /\ runs = 0
    /\ clock = 0
    /\ earlier = <<>>
    /\ NoOutreach
    /\ NoPreparation
    /\ NoWebhook

SpecReturns == InitReturns /\ [][Next]_vars

-----------------------------------------------------------------------------
(* The webhook server (src/webhook_server.py): app.run serves every        *)
(* request in a thread of its own, and the handlers of /webhook/sendgrid   *)
(* share tracking_events.json.  An event is named by its request and its   *)
(* position in the request.                                                *)

MaxRequests == 2
MaxEvents == 2

\* Everything but the webhook server.
outside_webhook == <<builder_vars, earlier, outreach_vars, resolver_vars>>

\* The server starts with an events file that lists what earlier requests
\* left (a file that does not exist yet reads as one without events, lines
\* 25-28), and the requests it will be sent carry zero to MaxEvents events.
InitWebhook ==
    /\ workflow_config = Workflow(<<>>, FALSE)
    /\ environ = EmptyMap
    /\ env_vars = EmptyMap
    /\ agents = [id \in {} |-> Null]
    /\ state = EmptyMap
    /\ pc = "idle"
    /\ idx = 1
    /\ calls = <<>>
    /\ recorded = <<>>
    /\ snapshots = <<>>
    /\ build_outcome = "none"
    /\ run_built = FALSE
    /\ entered = [state |-> EmptyMap, snapshots |-> 0]
    /\ run_outcome = "none"
    /\ builds = 0
    /\ runs = 0
    /\ clock = 0
    /\ earlier = <<>>
    /\ NoOutreach
    /\ NoPreparation
    /\ events_file \in {[readable |-> TRUE, events |-> <<>>],
                        [readable |-> TRUE, events |-> <<<<0, 1>>>>]}
    /\ \E n \in 1..MaxRequests : \E sizes \in [1..n -> 0..MaxEvents] :
           handlers = [r \in 1..n |->
                          [pc |-> "new", count |-> sizes[r], i |-> 1,
                           events |-> <<>>, status |-> 0]]

\* sendgrid_webhook up to the loop (lines 64-71): a request without events
\* is answered 400.
Receive ==
    \E r \in DOMAIN handlers :
        /\ handlers[r].pc = "new"
        /\ IF handlers[r].count = 0
           THEN handlers' = [handlers EXCEPT ![r].status = 400, ![r].pc = "done"]
           ELSE handlers' = [handlers EXCEPT ![r].pc = "load"]
        /\ UNCHANGED events_file
        /\ UNCHANGED outside_webhook

\* save_event, line 32: load_events() reads and parses the file (lines
\* 23-28).  json.load raises on a file that another handler has opened for
\* writing and not yet written, or that overlapping writes have garbled;
\* the exception leaves save_event and the request is answered 500 (lines
\* 99-101).
LoadEvents ==
    \E r \in DOMAIN handlers :
        /\ handlers[r].pc = "load"
        /\ IF events_file.readable
           THEN handlers' = [handlers EXCEPT ![r].events = events_file.events,
                                             ![r].pc = "open"]
           ELSE handlers' = [handlers EXCEPT ![r].status = 500, ![r].pc = "done"]
        /\ UNCHANGED events_file
        /\ UNCHANGED outside_webhook

\* save_event, lines 34-41: the event is appended to the list loaded and
\* open(EVENTS_FILE, 'w') empties the file.
OpenForWriting ==
    \E r \in DOMAIN handlers :
        /\ handlers[r].pc = "open"
        /\ handlers' = [handlers EXCEPT
                           ![r].events = Append(@, <<r, handlers[r].i>>),
                           ![r].pc = "dump"]
        /\ events_file' = [readable |-> FALSE, events |-> <<>>]
        /\ UNCHANGED outside_webhook

\* save_event, lines 42-44, and the rest of the loop body (lines 75-92):
\* json.dump writes the whole list and the file is closed.  When another
\* handler has the file open for writing too, the two writes start at the
\* same offset: the file ends up with this list, or with bytes of both.
\* After the last event the request is answered 200 (lines 94-97).
Dump ==
    \E r \in DOMAIN handlers :
        /\ handlers[r].pc = "dump"
        /\ \/ events_file' = [readable |-> TRUE, events |-> handlers[r].events]
           \/ /\ \E q \in DOMAIN handlers : q # r /\ handlers[q].pc = "dump"
              /\ events_file' = [readable |-> FALSE, events |-> <<>>]
        /\ IF handlers[r].i < handlers[r].count
           THEN handlers' = [handlers EXCEPT ![r].i = @ + 1, ![r].events = <<>>,
                                             ![r].pc = "load"]
           ELSE handlers' = [handlers EXCEPT ![r].status = 200,
                                             ![r].events = <<>>,
                                             ![r].pc = "done"]
        /\ UNCHANGED outside_webhook

NextWebhook == Receive \/ LoadEvents \/ OpenForWriting \/ Dump

SpecWebhook == InitWebhook /\ [][NextWebhook]_vars

-----------------------------------------------------------------------------
(* Vocabulary of the properties *)

Steps == StepsOf(workflow_config)

\* The last execute_workflow call has ended.
RunEnded == pc = "idle" /\ run_outcome # "none"

\* An entry that reports a failure: the orchestrator's or the stage's own.
IsFailure(e) == e.t = "dict" /\ "error" \in DOMAIN e.d

\* The success payload of an entry: what is under 'data' when the result
\* came wrapped, the entry itself otherwise.
Payload(e) == IF e.t = "dict" /\ "data" \in DOMAIN e.d THEN e.d["data"] ELSE e

\* The value is a placeholder whose first segment is the word s.
RefersTo(v, s) ==
    /\ v.t = "str"
    /\ \/ StartsWith(v.s, <<"{", "{", s, ".">>)
       \/ StartsWith(v.s, <<"{", "{", " ", s, ".">>)

\* The k-th invocation of the current run let an exception out of execute().
Raised(k) == calls[k].cls = "RaisingAgent"

LastSnapshot == snapshots[Len(snapshots)]

-----------------------------------------------------------------------------
(* C1: on a built workflow execute_workflow invokes the executors in the   *)
(* declared order, each declared step once, none skipped and none moved,   *)
(* whether earlier stages returned a result, returned an error result or   *)
(* raised: the ids invoked so far are a prefix of the declared ids, the    *)
(* loop is always one past the last invocation, and when the loop is left  *)
(* every declared step has been invoked.                                   *)
C1_DeclaredOrder ==
    run_built =>
        /\ Len(calls) <= Len(Steps)
        /\ \A k \in 1..Len(calls) : calls[k].id = Steps[k]["id"]
        /\ pc = "loop" => Len(calls) = idx - 1
        /\ (pc = "save" \/ RunEnded) => Len(calls) = Len(Steps)

\* A run of three stages has returned; the first raised and the second
\* returned its own error result.
C1_Witness ==
    /\ run_built /\ RunEnded /\ Len(calls) = 3
    /\ calls[1].cls = "RaisingAgent" \/ calls[1].cls = "ErrorAgent"
    /\ IsFailure(recorded[1]) /\ IsFailure(recorded[2])
    /\ calls[3].id # calls[1].id

(* C2: when a stage's execute raises, a failure entry is recorded for it,  *)
(* every later stage is still invoked, and every stage that would succeed  *)
(* on its own and has no binding to a raising stage records its normal     *)
(* success result, which is what the final snapshot holds for its id.      *)
C2_FailureIsolated ==
    LET raising == {calls[k].id : k \in {i \in 1..Len(calls) : Raised(i)}}
        independent(j) ==
            \A key \in DOMAIN InputsOf(Steps[j]), s \in raising :
                ~RefersTo(InputsOf(Steps[j])[key], s)
        succeeds(j) ==
            \/ calls[j].cls \in {"WrapAgent", "RawAgent"}
            \/ /\ calls[j].cls = "StrictAgent"
               /\ \A key \in DOMAIN calls[j].inputs \ {"dry_run"} :
                      calls[j].inputs[key] # Null
        normal(j) ==
            /\ ~IsFailure(recorded[j])
            /\ Payload(recorded[j]) = agents[calls[j].id].config["produces"]
        last(j) == \A i \in (j + 1)..Len(calls) : calls[i].id # calls[j].id
        \* no later stage changed what it was handed in place
        untouched(j) ==
            \A i \in (j + 1)..Len(calls) : calls[i].cls # "MutatingAgent"
    IN  run_built =>
            /\ Len(recorded) = Len(calls)
            /\ \A k \in 1..Len(calls) :
                   Raised(k) =>
                       /\ IsFailure(recorded[k])
                       /\ recorded[k].d["status"] = Word("failed")
                       /\ RunEnded => Len(calls) = Len(Steps)
            /\ \A j \in 1..Len(calls) :
                   (raising # {} /\ independent(j) /\ succeeds(j)) =>
                       /\ normal(j)
                       /\ (run_outcome = "returned" /\ pc = "idle" /\ last(j)) =>
                              /\ ~IsFailure(LastSnapshot[calls[j].id])
                              /\ untouched(j) =>
                                     LastSnapshot[calls[j].id] = recorded[j]
            /\ (run_outcome = "returned" /\ pc = "idle") =>
                   \A k \in 1..Len(calls) :
                       (Raised(k) /\ last(k)) =>
                           LastSnapshot[calls[k].id] = recorded[k]

\* A run has returned in which a stage raised and a later stage, which does
\* not refer to it, recorded its success result.
C2_Witness ==
    /\ run_built /\ RunEnded /\ run_outcome = "returned"
    /\ \E k, j \in 1..Len(calls) :
           /\ k < j /\ Raised(k)
           /\ calls[j].cls = "WrapAgent"
           /\ ~IsFailure(LastSnapshot[calls[j].id])
           /\ IsFailure(LastSnapshot[calls[k].id])

(* C3, as claimed: on a built workflow every execute_workflow call that    *)
(* has ended has returned and has produced a snapshot.                     *)
C3_AlwaysSnapshot ==
    (run_built /\ RunEnded) =>
        /\ run_outcome = "returned"
        /\ snapshots # <<>>
        /\ LastSnapshot = state

\* What is left of an execute_workflow call: 0 once it has ended, 1 when only
\* the save is left, and one more for every step still to be invoked.
Remaining ==
    CASE pc = "idle" -> 0
      [] pc = "save" -> 1
      [] pc = "loop" -> Len(Steps) - idx + 2

(* C3, amended: on a built workflow execute_workflow always ends: the next *)
(* stage can always be invoked, every step of the call brings its end      *)
(* nearer, and it ends either by returning with the snapshot of the final  *)
(* state written, even if every stage failed, or, when writing the         *)
(* snapshot fails, by raising that error to the caller.                    *)
C3_EndsWithSnapshotOrError ==
    /\ [](run_built =>
            /\ pc = "loop" =>
                   /\ idx \in 1..Len(Steps)
                   /\ Steps[idx]["id"] \in DOMAIN agents
            /\ RunEnded =>
                   \/ run_outcome = "OSError"
                   \/ /\ run_outcome = "returned"
                      /\ snapshots # <<>>
                      /\ LastSnapshot = state)
    /\ [][(run_built /\ pc # "idle") =>
              (Remaining' < Remaining /\ Remaining' >= 0)]_vars

\* A run in which every stage failed has returned with its snapshot.
C3_Witness ==
    /\ run_built /\ RunEnded /\ run_outcome = "returned"
    /\ Len(recorded) >= 2
    /\ \A k \in 1..Len(recorded) : IsFailure(recorded[k])
    /\ LastSnapshot = state

-----------------------------------------------------------------------------
(* Vocabulary of the properties about bindings *)

\* The bindings the k-th invocation of the current run was prepared from.
Bindings(k) == InputsOf(Steps[k])

\* What lies between the braces of a placeholder, without the white space
\* around it.
Inner(v) == Strip(SubSeq(v.s, 3, Len(v.s) - 2))

\* The value is a placeholder "{{w1.w2. ... .wn}}" of n >= 1 words.
IsPlaceholder(v) ==
    /\ v.t = "str"
    /\ Len(v.s) >= 5
    /\ <<v.s[1], v.s[2], v.s[Len(v.s) - 1], v.s[Len(v.s)]>> = <<"{", "{", "}", "}">>
    /\ LET inner == Inner(v)
       IN  /\ Len(inner) % 2 = 1
           /\ \A i \in 1..Len(inner) :
                  IF i % 2 = 0 THEN inner[i] = "."
                  ELSE inner[i] \notin {".", " ", "{", "}"}

\* Its words w1, ..., wn.
Segments(v) ==
    LET inner == Inner(v)
    IN  [i \in 1..((Len(inner) + 1) \div 2) |-> inner[2 * i - 1]]

\* The words of v when v is a placeholder, and no words when it is not.
SegmentsOf(v) ==
    IF v.t # "str" \/ Len(v.s) < 5 THEN <<>>
    ELSE IF <<v.s[1], v.s[2], v.s[Len(v.s) - 1], v.s[Len(v.s)]>>
                # <<"{", "{", "}", "}">> THEN <<>>
    ELSE LET inner == Inner(v)
         IN  IF /\ Len(inner) % 2 = 1
                /\ \A i \in 1..Len(inner) :
                       IF i % 2 = 0 THEN inner[i] = "."
                       ELSE inner[i] \notin {".", " ", "{", "}"}
             THEN [i \in 1..((Len(inner) + 1) \div 2) |-> inner[2 * i - 1]]
             ELSE <<>>

\* The words <<s, "output", x>> of a placeholder "{{s.output.x}}".
IsOutputPath(seg) == Len(seg) = 3 /\ seg[2] = "output"

\* A placeholder "{{s.output.x}}".
IsOutputRef(v) ==
    /\ IsPlaceholder(v)
    /\ LET seg == Segments(v) IN Len(seg) = 3 /\ seg[2] = "output"

\* The value at key x of a payload, None where there is none.
FieldOf(p, x) == IF p.t = "dict" /\ x \in DOMAIN p.d THEN p.d[x] ELSE Null

\* The value at a path of words below v, None where the path leaves v.
RECURSIVE AtPath(_, _)
AtPath(v, path) ==
    IF path = <<>> THEN v
    ELSE IF v.t # "dict" \/ Head(path) \notin DOMAIN v.d THEN Null
    ELSE AtPath(v.d[Head(path)], Tail(path))

\* The spellings of a word in any letter case.
Spellings(lower, upper) ==
    {[i \in 1..Len(lower) |-> IF i \in U THEN upper[i] ELSE lower[i]] :
        U \in SUBSET (1..Len(lower))}

TrueSpellings == Spellings(<<"t", "r", "u", "e">>, <<"T", "R", "U", "E">>)

FalseSpellings ==
    Spellings(<<"f", "a", "l", "s", "e">>, <<"F", "A", "L", "S", "E">>)

\* What a variable of the environment stands for in an input.
EnvMeaning(name) ==
    IF name \notin DOMAIN environ THEN Null
    ELSE IF environ[name] \in TrueSpellings THEN Bool(TRUE)
    ELSE IF environ[name] \in FalseSpellings THEN Bool(FALSE)
    ELSE Str(environ[name])

-----------------------------------------------------------------------------
(* C4, as claimed: a binding {{s.output.x}} is handed over as None while s *)
(* has no entry in state, and as the value at key x of the success payload *)
(* of s once s has recorded a success, wrapped under 'data' or not.        *)
C4_ResolvesPayloadField ==
    \A k \in 1..Len(calls) : \A key \in DOMAIN Bindings(k) :
        LET seg == SegmentsOf(Bindings(k)[key])
            s == seg[1]
            x == seg[3]
            before == calls[k].before
        IN  IsOutputPath(seg) =>
                /\ s \notin DOMAIN before => calls[k].inputs[key] = Null
                /\ (s \in DOMAIN before /\ ~IsFailure(before[s])) =>
                       calls[k].inputs[key] = FieldOf(Payload(before[s]), x)

(* C4, amended: for a stage id s other than 'config' and a field x other   *)
(* than 'output', a binding {{s.output.x}} is handed over as None while s  *)
(* has no entry in state, and as the value at key x of the success payload *)
(* of s (None if the payload has no such key) once s has recorded a        *)
(* success, wrapped under 'data' or not.                                   *)
C4_ResolvesPayloadFieldOfStage ==
    \A k \in 1..Len(calls) : \A key \in DOMAIN Bindings(k) :
        LET seg == SegmentsOf(Bindings(k)[key])
            s == seg[1]
            x == seg[3]
            before == calls[k].before
        IN  (IsOutputPath(seg) /\ s # "config" /\ x # "output") =>
                /\ s \notin DOMAIN before => calls[k].inputs[key] = Null
                /\ (s \in DOMAIN before /\ ~IsFailure(before[s])) =>
                       calls[k].inputs[key] = FieldOf(Payload(before[s]), x)

\* A stage was handed None for a binding to a stage without an entry, and a
\* later stage the leads out of the wrapped payload of 'find'.
C4_Witness ==
    \E k, j \in 1..Len(calls) :
        /\ "previous" \in DOMAIN Bindings(k)
        /\ IsOutputRef(Bindings(k)["previous"])
        /\ "rank" \notin DOMAIN calls[k].before
        /\ calls[k].inputs["previous"] = Null
        /\ "leads" \in DOMAIN Bindings(j)
        /\ Bindings(j)["leads"] = Ref(<<"find", "output", "leads">>)
        /\ "find" \in DOMAIN calls[j].before
        /\ "data" \in DOMAIN calls[j].before["find"].d
        /\ calls[j].inputs["leads"] = List(<<LeadA, LeadB>>)

(* C5, as claimed: once s has recorded a failure, raised or returned by    *)
(* the stage itself, every binding {{s.output.x}} is handed over as None.  *)
C5_FailedStageGivesNull ==
    \A k \in 1..Len(calls) : \A key \in DOMAIN Bindings(k) :
        LET seg == SegmentsOf(Bindings(k)[key])
            s == seg[1]
            before == calls[k].before
        IN  (IsOutputPath(seg) /\ s \in DOMAIN before /\ IsFailure(before[s])) =>
                calls[k].inputs[key] = Null

(* C5, amended: once a stage s other than 'config' has recorded a failure, *)
(* a binding {{s.output.x}} is handed over as None unless x is a key of    *)
(* the failure entry itself (error and status, and for a stage's own error *)
(* result also agent, context and timestamp), which gives that key's       *)
(* value, or x is 'output', which gives the whole failure entry.           *)
C5_FailedStageGivesNullOrOwnKey ==
    \A k \in 1..Len(calls) : \A key \in DOMAIN Bindings(k) :
        LET seg == SegmentsOf(Bindings(k)[key])
            s == seg[1]
            x == seg[3]
            before == calls[k].before
        IN  (/\ IsOutputPath(seg)
             /\ s # "config" /\ s \in DOMAIN before
             /\ IsFailure(before[s]) /\ "data" \notin DOMAIN before[s].d) =>
                calls[k].inputs[key] =
                    IF x = "output" THEN before[s]
                    ELSE IF x \in DOMAIN before[s].d THEN before[s].d[x]
                    ELSE Null

\* After 'find' raised, a stage was handed None for its leads and the error
\* text for its 'error' key.
C5_Witness ==
    \E k \in 1..Len(calls) :
        /\ {"leads", "why"} \subseteq DOMAIN Bindings(k)
        /\ Bindings(k)["leads"] = Ref(<<"find", "output", "leads">>)
        /\ Bindings(k)["why"] = Ref(<<"find", "output", "error">>)
        /\ "find" \in DOMAIN calls[k].before
        /\ calls[k].before["find"] = FailureEntry("RuntimeError")
        /\ calls[k].inputs["leads"] = Null
        /\ calls[k].inputs["why"] = Word("RuntimeError")

\* The workflow find -> rank -> notify, with a 'find' that succeeds.
IsFindRankNotify ==
    /\ Len(Steps) = 3
    /\ <<Steps[1]["id"], Steps[2]["id"], Steps[3]["id"]>>
           = <<"find", "rank", "notify">>
    /\ Steps[1]["agent"] \in {"WrapAgent", "RawAgent"}

(* C6, as claimed: in find (leads=[A,B]) -> rank (ranked=[B,A]) -> notify  *)
(* (top={{rank.output.ranked.0}}), notify is invoked with top = B.         *)
C6_TopIsFirstRanked ==
    (/\ run_built /\ IsFindRankNotify /\ Len(calls) = 3
     /\ calls[2].inputs["leads"] = List(<<LeadA, LeadB>>)
     /\ FieldOf(Payload(calls[3].before["rank"]), "ranked")
            = List(<<LeadB, LeadA>>)) =>
        calls[3].inputs["top"] = LeadB

(* C6, amended: in find -> rank -> notify, rank is invoked with            *)
(* leads = [A,B] and notify is invoked with top = None: a numeric path     *)
(* segment is looked up as a mapping key, so on a sequence it misses and   *)
(* the binding resolves to None instead of selecting an element.           *)
C6_TopIsNull ==
    /\ (run_built /\ IsFindRankNotify) =>
           /\ Len(calls) >= 2 =>
                  calls[2].inputs["leads"] = List(<<LeadA, LeadB>>)
           /\ Len(calls) = 3 => calls[3].inputs["top"] = Null
    /\ \A k \in 1..Len(calls) : \A key \in DOMAIN Bindings(k) :
           LET seg == SegmentsOf(Bindings(k)[key])
               before == calls[k].before
           IN  (/\ Len(seg) = 4
                /\ seg[2] = "output" /\ seg[4] \in {"0", "1"}
                /\ seg[1] \in DOMAIN before \ {"config"}
                /\ FieldOf(Payload(before[seg[1]]), seg[3]).t = "list") =>
                   calls[k].inputs[key] = Null

\* notify was invoked with top = None although rank had recorded
\* ranked = [B,A].
C6_Witness ==
    /\ run_built /\ IsFindRankNotify /\ Len(calls) = 3
    /\ FieldOf(Payload(calls[3].before["rank"]), "ranked")
           = List(<<LeadB, LeadA>>)
    /\ calls[3].inputs["top"] = Null

(* C7: a binding that cannot be resolved (a stage without an entry, a      *)
(* missing field of a stage's payload, a missing config path, an unset     *)
(* environment variable) is handed over as None, for that field only: the  *)
(* literal fields of the same stage are handed over unchanged, nothing is  *)
(* raised, and the stage is invoked and its result recorded.               *)
C7_UnresolvedIsNull ==
    /\ Len(recorded) = Len(calls)
    /\ run_built => run_outcome # "KeyError"
    /\ \A k \in 1..Len(calls) :
           /\ DOMAIN calls[k].inputs = DOMAIN Bindings(k) \cup {"dry_run"}
           /\ \A key \in DOMAIN Bindings(k) :
                  LET b == Bindings(k)[key]
                      seg == SegmentsOf(b)
                      before == calls[k].before
                  IN  /\ (b.t # "str" \/ "{" \notin {b.s[i] : i \in 1..Len(b.s)})
                             => calls[k].inputs[key] = b
                      /\ (Len(seg) = 1 /\ seg[1] \notin DOMAIN environ)
                             => calls[k].inputs[key] = Null
                      /\ (Len(seg) >= 2 /\ seg[1] = "config"
                             /\ AtPath(ConfigOf(workflow_config), Tail(seg)) = Null)
                             => calls[k].inputs[key] = Null
                      /\ (Len(seg) >= 2 /\ seg[1] # "config"
                             /\ seg[1] \notin DOMAIN before)
                             => calls[k].inputs[key] = Null
                      /\ (IsOutputPath(seg) /\ seg[1] # "config"
                             /\ seg[3] # "output"
                             /\ seg[1] \in DOMAIN before
                             /\ FieldOf(Payload(before[seg[1]]), seg[3]) = Null)
                             => calls[k].inputs[key] = Null

\* A stage was invoked with None for an unset variable, a missing config
\* path, a missing field and a stage without an entry, with its literal
\* field and a resolvable binding in place, and its result was recorded.
C7_Witness ==
    \E k \in 1..Len(recorded) :
        /\ calls[k].id = "audit"
        /\ "API_TOKEN" \notin DOMAIN environ
        /\ calls[k].inputs["unset"] = Null
        /\ calls[k].inputs["no_section"] = Null
        /\ "find" \in DOMAIN calls[k].before
        /\ ~IsFailure(calls[k].before["find"])
        /\ calls[k].inputs["absent"] = Null
        /\ "notify" \notin DOMAIN calls[k].before
        /\ calls[k].inputs["sent"] = Null
        /\ calls[k].inputs["limit"] = Num(5)
        /\ calls[k].inputs["leads"] = List(<<LeadA, LeadB>>)

(* C8: a placeholder {{config.a.b...}} is handed over as the value at that *)
(* path of the workflow's config mapping, and as None, never as a value    *)
(* part of the way down, when a segment is absent or the value reached is  *)
(* not a mapping while segments remain.                                    *)
C8_ConfigPath ==
    \A k \in 1..Len(calls) : \A key \in DOMAIN Bindings(k) :
        LET seg == SegmentsOf(Bindings(k)[key])
        IN  (Len(seg) >= 2 /\ seg[1] = "config") =>
                calls[k].inputs[key]
                    = AtPath(ConfigOf(workflow_config), Tail(seg))

\* A stage was handed the nested value, the whole section, and None for a
\* path that runs through a number and for a section that does not exist.
C8_Witness ==
    \E k \in 1..Len(calls) :
        /\ calls[k].id = "audit"
        /\ calls[k].inputs["min_score"] = Num(60)
        /\ calls[k].inputs["scoring"] = Dict([min_score |-> Num(60)])
        /\ calls[k].inputs["too_deep"] = Null
        /\ calls[k].inputs["no_section"] = Null

(* C9: a single-word placeholder {{NAME}} is handed over as the boolean    *)
(* when the environment variable NAME is 'true' or 'false' in any letter   *)
(* case, as the raw string when it is set to anything else, and as None    *)
(* when it is unset.                                                       *)
C9_EnvPlaceholder ==
    \A k \in 1..Len(calls) : \A key \in DOMAIN Bindings(k) :
        LET seg == SegmentsOf(Bindings(k)[key])
        IN  Len(seg) = 1 => calls[k].inputs[key] = EnvMeaning(seg[1])

\* With ENABLE_DRY_RUN=TRUE a stage was handed the boolean, the raw string
\* of another variable and None for an unset one.
C9_Witness ==
    \E k \in 1..Len(calls) :
        /\ calls[k].id = "audit"
        /\ "ENABLE_DRY_RUN" \in DOMAIN environ
        /\ environ["ENABLE_DRY_RUN"] = <<"T", "R", "U", "E">>
        /\ calls[k].inputs["flag"] = Bool(TRUE)
        /\ calls[k].inputs["sender"] = Str(<<"Ana">>)
        /\ calls[k].inputs["unset"] = Null

\* The global dry-run flag: ENABLE_DRY_RUN as ConfigLoader stored it, True
\* when it stored nothing.
GlobalDryRun ==
    IF "ENABLE_DRY_RUN" \in DOMAIN env_vars THEN env_vars["ENABLE_DRY_RUN"]
    ELSE TRUE

(* C10: a stage that declares no 'dry_run' input is invoked with dry_run   *)
(* equal to the global dry-run flag; a stage that declares one is invoked  *)
(* with the value its binding resolves to, whatever the flag is.           *)
C10_DryRunDefault ==
    \A k \in 1..Len(calls) :
        IF "dry_run" \notin DOMAIN Bindings(k)
        THEN calls[k].inputs["dry_run"] = Bool(GlobalDryRun)
        ELSE LET seg == SegmentsOf(Bindings(k)["dry_run"])
             IN  Len(seg) = 1 =>
                     calls[k].inputs["dry_run"] = EnvMeaning(seg[1])

\* With the flag on and ENABLE_DRY_RUN=False, a stage without a dry_run
\* input was invoked with True and a stage declaring {{ENABLE_DRY_RUN}}
\* with False.
C10_Witness ==
    /\ GlobalDryRun
    /\ \E k, j \in 1..Len(calls) :
           /\ "dry_run" \notin DOMAIN Bindings(k)
           /\ calls[k].inputs["dry_run"] = Bool(TRUE)
           /\ "dry_run" \in DOMAIN Bindings(j)
           /\ calls[j].inputs["dry_run"] = Bool(FALSE)

-----------------------------------------------------------------------------
(* Vocabulary of the properties about building *)

\* build_workflow has been called and its last call raised.
BuildFailed == builds >= 1 /\ build_outcome # "built"

\* A step descriptor with its id, its agent type and its instructions.
WellFormedStep(step) ==
    /\ {"id", "agent", "instructions"} \subseteq DOMAIN step
    /\ step["instructions"].t = "str"

\* The definition has a name and a steps sequence of well-formed steps.
WellFormed ==
    /\ {"workflow_name", "steps"} \subseteq DOMAIN workflow_config
    /\ workflow_config["workflow_name"].t = "str"
    /\ \A i \in 1..Len(Steps) : WellFormedStep(Steps[i])

(* C11: when build_workflow fails, for a definition the schema rejects or  *)
(* for an agent type that is not in AGENT_REGISTRY, it has invoked no      *)
(* stage's execute and written no entry to state: the failing call leaves  *)
(* state, the invocations and the snapshots as they were, and on a builder *)
(* that has not been run yet state is empty and nothing has been invoked.  *)
C11_BuildFailsBeforeAnyStage ==
    /\ []((BuildFailed /\ runs = 0) =>
              /\ state = EmptyMap
              /\ calls = <<>>
              /\ clock = 0
              /\ snapshots = <<>>)
    /\ [][(builds' # builds /\ build_outcome' # "built") =>
              /\ state' = state
              /\ calls' = calls
              /\ recorded' = recorded
              /\ clock' = clock
              /\ snapshots' = snapshots]_vars

\* build_workflow has raised for the agent type of the second step, after
\* constructing the executor of the first; nothing has run.
C11_Witness ==
    /\ build_outcome = "unknown agent" /\ runs = 0
    /\ Len(Steps) >= 2 /\ Steps[2]["agent"] \notin AGENT_REGISTRY
    /\ DOMAIN agents = {Steps[1]["id"]}
    /\ state = EmptyMap /\ clock = 0

C13_NoPartialPipeline ==
    /\ BuildFailed => DOMAIN agents = {}
    /\ (runs >= 1 /\ ~run_built) => calls = <<>>

(* C14: execute_workflow requires a successful build_workflow before it:   *)
(* called on a builder that is not built it invokes no stage, does not     *)
(* return as completed and writes no snapshot.                             *)
C14_RunRequiresBuilt ==
    (runs >= 1 /\ ~run_built) =>
        /\ calls = <<>>
        /\ run_outcome # "returned"
        /\ Len(snapshots) = entered.snapshots

-----------------------------------------------------------------------------
(* Vocabulary of the properties about state *)

\* The positions of the definition that carry the stage id s.
PositionsOf(s) == {j \in 1..Len(Steps) : Steps[j]["id"] = s}

\* The j-th invocation of the current run is the last one so far for its id.
LastFor(j) == \A i \in (j + 1)..Len(calls) : calls[i].id # calls[j].id

(* C15: when the bindings of the stage at position N are resolved, a       *)
(* binding {{s.output.x}} to a stage s at a position j < N is handed the   *)
(* field x of the result this run recorded for position j, and a binding   *)
(* to a stage at a position > N is handed None.                            *)
C15_SeesEarlierStagesOnly ==
    run_built =>
        \A n \in 1..Len(calls) : \A key \in DOMAIN Bindings(n) :
            LET seg == SegmentsOf(Bindings(n)[key])
                s == seg[1]
                x == seg[3]
            IN  (IsOutputPath(seg) /\ s # "config" /\ x # "output") =>
                    /\ \A j \in PositionsOf(s) :
                           j < n => calls[n].inputs[key]
                                        = FieldOf(Payload(recorded[j]), x)
                    /\ \A j \in PositionsOf(s) :
                           j > n => calls[n].inputs[key] = Null

(* C16: during one execute_workflow call each stage id is executed once,   *)
(* its entry is written once, and the entry stays as it was written for    *)
(* the rest of the call, for every definition build_workflow accepts and   *)
(* every value a stage returns.                                            *)
C16_WrittenOnce ==
    run_built =>
        /\ \A j, k \in 1..Len(calls) : j # k => calls[j].id # calls[k].id
        /\ \A k \in 1..Len(calls) :
               /\ Len(calls[k].writes) = 1
               /\ k <= Len(recorded) =>
                      /\ calls[k].id \in DOMAIN state
                      /\ state[calls[k].id] = recorded[k]

(* C17: an entry is not changed after it is written, whatever a later      *)
(* stage does with its inputs: the entry state holds for a stage, and the  *)
(* one in the snapshot of the run, is the one that stage recorded.         *)
C17_EntriesUnchanged ==
    run_built =>
        \A j \in 1..Len(recorded) :
            LastFor(j) =>
                /\ state[calls[j].id] = recorded[j]
                /\ (RunEnded /\ run_outcome = "returned") =>
                       LastSnapshot[calls[j].id] = recorded[j]

-----------------------------------------------------------------------------
(* Vocabulary of the properties about the snapshot and about failures *)

\* The number of snapshots the current execute_workflow call has written.
WrittenByThisCall == Len(snapshots) - entered.snapshots

\* The current execute_workflow call has returned to its caller.
Returned == RunEnded /\ run_outcome = "returned"

(* C18, as claimed: every execute_workflow call on a built workflow that   *)
(* has ended has written exactly one snapshot, with an entry for every     *)
(* stage id of the definition.                                             *)
C18_ExactlyOneSnapshot ==
    (run_built /\ RunEnded) =>
        /\ WrittenByThisCall = 1
        /\ \A i \in 1..Len(Steps) : Steps[i]["id"] \in DOMAIN LastSnapshot

(* C18, amended: the snapshot is written at most once per execute_workflow *)
(* call, exactly once by a call that returns and not at all by a call that *)
(* raises; it is written only after the last declared stage has been       *)
(* executed and its result recorded, it is the state of that moment, and   *)
(* it contains an entry for every stage id of the definition.              *)
C18_SnapshotAfterLastStage ==
    /\ [](/\ WrittenByThisCall \in {0, 1}
          /\ WrittenByThisCall = 1 <=> (runs >= 1 /\ Returned)
          /\ WrittenByThisCall = 1 =>
                 /\ Len(calls) = Len(Steps)
                 /\ Len(recorded) = Len(Steps)
                 /\ LastSnapshot = state
                 /\ \A i \in 1..Len(Steps) :
                        Steps[i]["id"] \in DOMAIN LastSnapshot)
    /\ [][snapshots' # snapshots =>
              /\ pc = "save"
              /\ idx = Len(Steps) + 1 \/ Steps = <<>>
              /\ snapshots' = Append(snapshots, state)]_vars

\* A run of three stages, one of which failed, has returned with its one
\* snapshot, which has the three entries.
C18_Witness ==
    /\ run_built /\ Returned /\ WrittenByThisCall = 1
    /\ Len(Steps) = 3 /\ Cardinality(DOMAIN LastSnapshot) = 3
    /\ \E k \in 1..3 : IsFailure(recorded[k])

(* C19: on a built workflow execute_workflow raises only when writing the  *)
(* snapshot fails.  A failed write is raised to the caller: a call that    *)
(* returns has written its snapshot.  A stage that raises or returns an    *)
(* error, or a binding that does not resolve, never ends the call: it      *)
(* ends only from the save, after every stage has been invoked.            *)
C19_RaisesOnlyWhenSaveFails ==
    /\ [](run_built =>
            /\ run_outcome \in {"none", "returned", "OSError"}
            /\ Returned => (WrittenByThisCall = 1 /\ LastSnapshot = state)
            /\ (RunEnded /\ run_outcome = "OSError") =>
                   (WrittenByThisCall = 0 /\ Len(calls) = Len(Steps)))
    /\ [][(run_built /\ pc # "idle" /\ pc' = "idle") =>
              /\ pc = "save"
              /\ snapshots' = snapshots <=> run_outcome' = "OSError"]_vars

\* A run in which a stage raised and another was handed None for a binding
\* has ended with the error of the write, and no snapshot.
C19_Witness ==
    /\ run_built /\ RunEnded /\ run_outcome = "OSError"
    /\ WrittenByThisCall = 0
    /\ \E k, j \in 1..Len(calls) :
           /\ Raised(k)
           /\ IsFailure(recorded[k])
           /\ \E key \in DOMAIN Bindings(j) :
                  IsPlaceholder(Bindings(j)[key]) /\ calls[j].inputs[key] = Null

\* The keys of the result BaseAgent.handle_error builds.
OwnErrorKeys == {"status", "agent", "error", "context", "timestamp"}

-----------------------------------------------------------------------------
(* Independent runs *)

\* A value without its timestamps.
RECURSIVE Scrub(_)
Scrub(v) ==
    CASE v.t = "dict" ->
             Dict([k \in DOMAIN v.d \ {"timestamp"} |-> Scrub(v.d[k])])
      [] v.t = "list" -> List([i \in 1..Len(v.l) |-> Scrub(v.l[i])])
      [] OTHER -> v

\* A state or snapshot without its timestamps.
ScrubAll(st) == [id \in DOMAIN st |-> Scrub(st[id])]

\* The process built its workflow and then called execute_workflow once,
\* and the call has ended with the given outcome.
RanOnce(built, calls_made, outcome) ==
    built /\ calls_made = 1 /\ outcome \in {"returned", "OSError"}

\* C21: two processes over the same definition, configuration and
\* environment, each with a freshly constructed and built builder that
\* runs the workflow once, with stages that return the same outputs for
\* the same inputs: the final states are the same except for timestamps,
\* and so are the snapshots when both were written.
C21_IndependentRunsAgree ==
    \A p \in DOMAIN earlier :
        LET e == earlier[p]
        IN  (/\ pc = "idle"
             /\ RanOnce(build_outcome = "built" /\ run_built, runs,
                        run_outcome)
             /\ RanOnce(e.build_outcome = "built", e.runs, e.run_outcome)) =>
                /\ ScrubAll(state) = ScrubAll(e.state)
                /\ (run_outcome = "returned" /\ e.run_outcome = "returned") =>
                       ScrubAll(LastSnapshot)
                           = ScrubAll(e.snapshots[Len(e.snapshots)])

\* Both processes ran once and returned, with a stage that failed, a stage
\* that changed an earlier entry in place, and timestamps that differ.
C21_Witness ==
    /\ earlier # <<>>
    /\ pc = "idle"
    /\ RanOnce(build_outcome = "built" /\ run_built, runs, run_outcome)
    /\ RanOnce(earlier[1].build_outcome = "built", earlier[1].runs,
               earlier[1].run_outcome)
    /\ run_outcome = "returned" /\ earlier[1].run_outcome = "returned"
    /\ state # earlier[1].state
    /\ \E j \in DOMAIN state : IsFailure(state[j])
    /\ \E k \in DOMAIN calls : calls[k].cls = "MutatingAgent"
    /\ "find" \in DOMAIN state /\ ~IsFailure(state["find"])

-----------------------------------------------------------------------------
(* Dispatch and dry run *)

\* The emails send_email has handled so far.
LiveSends == {i \in DOMAIN bulk_log : bulk_log[i].via = "send_email"}

\* C22: when OutreachExecutorAgent.execute is called with dry_run true,
\* send_bulk_emails hands every message to _simulate_send and none to
\* send_email, whatever the number of messages, and nothing reaches the
\* network.
C22_DryRunSendsNothing ==
    ("dry_run" \in DOMAIN outreach_inputs
        /\ outreach_inputs["dry_run"] = Bool(TRUE)) =>
        /\ LiveSends = {}
        /\ \A i \in DOMAIN bulk_log :
               bulk_log[i].via = "_simulate_send" /\ ~bulk_log[i].network
        /\ outreach_pc = "done" =>
               /\ results.failed = <<>>
               /\ \A i \in DOMAIN results.sent :
                      results.sent[i] = Simulated(emails_to_send[i])

\* A dry run over MaxMessages messages with an API key at hand has ended.
C22_Witness ==
    /\ outreach_pc = "done"
    /\ outreach_inputs["dry_run"] = Bool(TRUE)
    /\ sendgrid_client = "api"
    /\ Len(emails_to_send) = MaxMessages
    /\ Len(bulk_log) = MaxMessages

\* The 'send' step declares a dry_run input bound to {{VAR}} for a variable
\* VAR the environment does not set.
DryRunUnresolved ==
    /\ Steps # <<>>
    /\ "dry_run" \in DOMAIN InputsOf(Steps[1])
    /\ LET seg == SegmentsOf(InputsOf(Steps[1])["dry_run"])
       IN  Len(seg) = 1 /\ seg[1] \notin DOMAIN environ

\* C25: when a stage declares a dry_run binding that does not resolve
\* ({{VAR}} with VAR unset), its input carries dry_run = null whatever the
\* global dry-run flag says, OutreachExecutorAgent passes that null on to
\* send_bulk_emails, and every email is handled by send_email, the live
\* path.
C25_UnresolvedDryRunGoesLive ==
    DryRunUnresolved =>
        /\ outreach_inputs["dry_run"] = Null
        /\ outreach_pc \in {"bulk", "done"} =>
               /\ dry_run = Null
               /\ ~Truthy(dry_run)
               /\ \A i \in DOMAIN bulk_log : bulk_log[i].via = "send_email"
        /\ (outreach_pc = "done" /\ sendgrid_client = "api") =>
               \A i \in DOMAIN bulk_log : bulk_log[i].network

\* With the global flag on, an unresolved dry_run binding has let
\* MaxMessages emails reach the SendGrid service.
C25_Witness ==
    /\ DryRunUnresolved
    /\ GlobalDryRun
    /\ outreach_pc = "done"
    /\ Len(bulk_log) = MaxMessages
    /\ \A i \in DOMAIN bulk_log : bulk_log[i].network
    /\ results.sent # <<>>

-----------------------------------------------------------------------------
(* The resolver on its own *)

\* The value workflow.json binds to the input field of the step, its words
\* when it is a placeholder, and the value _prepare_agent_inputs returned
\* for it.
Asked == InputsOf(Steps[1])["value"]
AskedSegments == SegmentsOf(Asked)
Prepared == prepare_pc = "done"
Got == resolved_inputs["value"]

\* The binding is {{s.output.x}} and stage s has left an entry.
AsksField ==
    /\ Prepared
    /\ IsOutputPath(AskedSegments)
    /\ AskedSegments[1] \in DOMAIN state \ {"config"}

\* What {{s.output.x}} means for a payload p: the field x of p, and when x
\* is the marker 'output' again, p itself or what p holds under 'data'.
FieldOrPayload(p, x) == IF x = "output" THEN Payload(p) ELSE FieldOf(p, x)

\* C23 as stated: {{s.output}} yields the 'data' payload of the entry when
\* the entry has one and the entry itself when it has none, and
\* {{s.output.x}} yields the same value for every payload whether the stage
\* returned it wrapped under 'data' or as it is.
C23_SameWrappedOrNot ==
    /\ (Prepared /\ Len(AskedSegments) = 2 /\ AskedSegments[2] = "output"
            /\ AskedSegments[1] \in DOMAIN state \ {"config"}) =>
           Got = Payload(state[AskedSegments[1]])
    /\ AsksField =>
           LET s == AskedSegments[1]
               x == AskedSegments[3]
           IN  \A p \in Payloads :
                   (state[s] = p \/ state[s] = format_output(s, p, 0)) =>
                       Got = FieldOrPayload(p, x)

\* C23: {{s.output}} yields the 'data' payload of the entry when the entry
\* has one and the entry itself when it has none, never null for a stage
\* that left an entry; {{s.output.x}} yields the same value for a payload
\* returned wrapped under 'data' and for the same payload returned as it
\* is, provided the payload has no key 'data' of its own.
C23_SameWrappedOrNotWithoutOwnData ==
    /\ (Prepared /\ Len(AskedSegments) = 2 /\ AskedSegments[2] = "output"
            /\ AskedSegments[1] \in DOMAIN state \ {"config"}) =>
           /\ Got = Payload(state[AskedSegments[1]])
           /\ Got # Null
    /\ AsksField =>
           LET s == AskedSegments[1]
               x == AskedSegments[3]
           IN  \A p \in Payloads :
                   /\ state[s] = format_output(s, p, 0) =>
                          Got = FieldOrPayload(p, x)
                   /\ (state[s] = p /\ "data" \notin DOMAIN p.d) =>
                          Got = FieldOrPayload(p, x)

\* {{s.output.x}} has been resolved to v against a result returned as it
\* is, {x: v, ...}.
C23_Witness ==
    /\ AsksField
    /\ AskedSegments[3] = "x"
    /\ state["s"] \in Payloads
    /\ "data" \notin DOMAIN state["s"].d
    /\ Got = Word("v")

\* The value has the shape of a placeholder: a string that starts with
\* '{{' and ends with '}}'.
HasBraces(v) ==
    /\ v.t = "str"
    /\ Len(v.s) >= 4
    /\ v.s[1] = "{" /\ v.s[2] = "{"
    /\ v.s[Len(v.s) - 1] = "}" /\ v.s[Len(v.s)] = "}"

\* C24: an input value that is not a string, or a string that does not
\* both start with '{{' and end with '}}', even one that contains a
\* placeholder, is handed to the stage as it is.
C24_LiteralUnchanged ==
    (Prepared /\ ~HasBraces(Asked)) => Got = Asked

\* A text that contains a placeholder of a stage with an entry has been
\* passed on as it is.
C24_Witness ==
    /\ Prepared
    /\ Asked = Str(<<"see", " ", "{", "{", "s", ".", "output", ".", "x",
                     "}", "}">>)
    /\ "s" \in DOMAIN state
    /\ FieldOf(Payload(state["s"]), "x") # Null
    /\ Got = Asked

\* C28: a placeholder of two or more segments whose first segment is
\* 'config' is resolved against the config section of the definition, also
\* when a stage with id 'config' has written its result to state: that
\* result cannot be referenced.
C28_ConfigStageShadowed ==
    (/\ Prepared
     /\ "config" \in DOMAIN state
     /\ Len(AskedSegments) >= 2
     /\ AskedSegments[1] = "config") =>
        Got = AtPath(ConfigOf(workflow_config), Tail(AskedSegments))

\* {{config.output.x}} has been resolved to the value of the config section
\* although stage 'config' has recorded another x in its payload.
C28_Witness ==
    /\ Prepared
    /\ "config" \in DOMAIN state
    /\ AskedSegments = <<"config", "output", "x">>
    /\ Payload(state["config"]) = Dict([x |-> Word("staged"),
                                        scoring |-> Word("staged")])
    /\ Got = Word("configured")

\* No mapping in v, v included, has a key 'data'.
RECURSIVE Plain(_)
Plain(v) ==
    CASE v.t = "dict" ->
             "data" \notin DOMAIN v.d /\ \A k \in DOMAIN v.d : Plain(v.d[k])
      [] v.t = "list" -> \A i \in 1..Len(v.l) : Plain(v.l[i])
      [] OTHER -> TRUE

\* A path without its 'output' words.
Words(path) == SelectSeq(path, LAMBDA w : w # "output")

\* C29: in a reference to a stage with an entry, 'output' is a marker at
\* every position of the path and never the name of a field that is looked
\* up.  Where no value on the way has a key 'data', the reference yields
\* what the path without its 'output' words leads to: below the entry, or
\* below its 'data' payload when the entry is wrapped and the path starts
\* with 'output'.  So {{s.output.a.output.b}} yields what {{s.output.a.b}}
\* yields, and {{s.a.output}} what {{s.a}} yields when a's value has no key
\* 'data'.
C29_OutputMarkerEverywhere ==
    (/\ Prepared
     /\ Len(AskedSegments) >= 2
     /\ AskedSegments[1] \in DOMAIN state \ {"config"}) =>
        LET e == state[AskedSegments[1]]
            path == Tail(AskedSegments)
        IN  /\ Plain(e) => Got = AtPath(e, Words(path))
            /\ (/\ e.t = "dict" /\ "data" \in DOMAIN e.d
                /\ Plain(e.d["data"])
                /\ path[1] = "output") =>
                   Got = AtPath(e.d["data"], Words(path))
            /\ (/\ Len(path) = 2 /\ path[1] # "output" /\ path[2] = "output"
                /\ Plain(FieldOf(e, path[1]))) =>
                   Got = FieldOf(e, path[1])

\* {{s.output.a.output.b}} has been resolved to the b of a, against a
\* wrapped payload that also has a field named 'output'.
C29_Witness ==
    /\ Prepared
    /\ AskedSegments = <<"s", "output", "a", "output", "b">>
    /\ "s" \in DOMAIN state
    /\ "data" \in DOMAIN state["s"].d
    /\ FieldOf(Payload(state["s"]), "output") = Word("inner")
    /\ Got = Word("w")

-----------------------------------------------------------------------------
(* What is stored for a stage *)

\* What the k-th stage invoked in the current run handed back, for a stage
\* that returns its result as it is.
HandedBack(k) == Produces(agents[calls[k].id])

\* C26: once execute_workflow has returned every value in state is a
\* mapping: for a stage that returned None, an empty mapping or an empty
\* list the entry is the empty mapping, and for a stage that returned
\* something that is neither empty nor a mapping the entry is the failure
\* mapping with an error and the status 'failed', not the value returned.
C26_EntriesAreMappings ==
    /\ Returned => \A id \in DOMAIN state : state[id].t = "dict"
    /\ \A k \in DOMAIN calls :
           calls[k].cls \in {"RawAgent", "ListAgent"} =>
               LET v == IF calls[k].cls = "ListAgent"
                        THEN List(<<HandedBack(k)>>)
                        ELSE HandedBack(k)
               IN  /\ v \in {Null, Dict(EmptyMap), List(<<>>)} =>
                          recorded[k] = Dict(EmptyMap)
                   /\ (v.t \in {"str", "int", "list"} /\ v # List(<<>>)) =>
                          /\ recorded[k] # v
                          /\ DOMAIN recorded[k].d = {"error", "status"}
                          /\ recorded[k].d["status"] = Word("failed")
                   /\ Returned => state[calls[k].id] = recorded[k]

\* A run has returned after a stage returned None, one returned an empty
\* list and one returned a text.
C26_Witness ==
    /\ Returned
    /\ {"none", "nothing", "text"} \subseteq DOMAIN state
    /\ state["none"] = Dict(EmptyMap)
    /\ state["nothing"] = Dict(EmptyMap)
    /\ "error" \in DOMAIN state["text"].d

-----------------------------------------------------------------------------
(* A second call on the same builder *)

\* The current execute_workflow call is the second one on the builder, on
\* a built workflow, and the first one returned, leaving its snapshot.
SecondCall ==
    /\ run_built
    /\ runs = 2
    /\ entered.snapshots = 1

\* C27: execute_workflow does not clear the state it finds.  A second call
\* on the same builder invokes every stage again in declared order, each
\* stage overwriting its entry when its turn comes, and until then the
\* entry of the first call stays: a binding {{s.output.x}} to a stage s not
\* yet invoked again, the stage itself or a later one, yields what the entry
\* left by the first call holds, not null.
C27_SecondCallSeesFirst ==
    SecondCall =>
        /\ entered.state = snapshots[1]
        /\ {Steps[i]["id"] : i \in DOMAIN Steps} \subseteq DOMAIN entered.state
        /\ \A k \in DOMAIN calls : calls[k].id = Steps[k]["id"]
        /\ \A i \in DOMAIN Steps :
               (i > Len(calls) /\ \A k \in DOMAIN calls :
                                      calls[k].id # Steps[i]["id"]) =>
                   state[Steps[i]["id"]] = entered.state[Steps[i]["id"]]
        /\ \A k \in DOMAIN calls :
               /\ k = Len(calls) => state[calls[k].id] = recorded[k]
               /\ \A key \in DOMAIN Bindings(k) :
                      LET seg == SegmentsOf(Bindings(k)[key])
                          s == seg[1]
                      IN  (/\ IsOutputPath(seg)
                           /\ \E i \in k..Len(Steps) : Steps[i]["id"] = s
                           /\ \A j \in 1..(k - 1) : calls[j].id # s) =>
                              calls[k].inputs[key] =
                                  FieldOrPayload(Payload(entered.state[s]),
                                                 seg[3])

\* In a second call 'find' has been handed the ranking the first call left,
\* before 'rank' was invoked again.
C27_Witness ==
    /\ SecondCall
    /\ Len(calls) = 1
    /\ calls[1].id = "find"
    /\ Bindings(1)["previous"] = Ref(<<"rank", "output", "ranked">>)
    /\ calls[1].inputs["previous"] = List(<<LeadB, LeadA>>)
    /\ \E i \in DOMAIN Steps : Steps[i]["id"] = "rank"

-----------------------------------------------------------------------------
(* The events file of the webhook server *)

\* Every request has been answered.
AllAnswered == \A r \in DOMAIN handlers : handlers[r].pc = "done"

\* The events of the requests answered 200.
Accepted ==
    UNION {{<<r, i>> : i \in 1..handlers[r].count} :
              r \in {q \in DOMAIN handlers : handlers[q].status = 200}}

\* The events the file lists.
Listed == {events_file.events[n] : n \in DOMAIN events_file.events}

\* C30: no accepted webhook event is lost.  Once every request has been
\* answered, whatever the interleaving of their handlers, the events file
\* lists every event of every request answered 200, and it has grown by
\* exactly their number.
C30_NoAcceptedEventLost ==
    AllAnswered =>
        /\ events_file.readable
        /\ Accepted \subseteq Listed
        /\ Cardinality({e \in Listed : e[1] # 0}) = Cardinality(Accepted)

\* Two requests of one event each were both answered 200 and the file,
\* which can be read, lists the event of one of them only.
LostUpdate ==
    /\ AllAnswered
    /\ DOMAIN handlers = 1..2
    /\ \A r \in 1..2 : handlers[r].count = 1 /\ handlers[r].status = 200
    /\ events_file.readable
    /\ Cardinality(Listed \cap Accepted) = 1

=============================================================================
